---- MODULE Spec2Model ----
(***************************************************************************)
(* Model of the run pipeline of mapped_command (src/src/lib.rs):           *)
(* Command (builder) --spawn--> Child (live handle) --wait--> outcome.     *)
(* The spawn backend (Spawner / ChildHandle) and the output mapping are    *)
(* trait objects; their scripted behaviour is part of the configuration.   *)
(***************************************************************************)
EXTENDS Integers, Sequences, FiniteSets, TLC

\* ------------------------------------------------------------------ bounds
MaxCode == 1        \* exit codes range over 0..MaxCode
MaxRaw == 0         \* opaque OS-specific statuses range over 0..MaxRaw
MaxArgs == 3        \* arguments a Command is given at most
MaxBulk == 2        \* items passed to one with_arguments / with_env_updates call

\* ------------------------------------------------------------ basic values
None == [some |-> FALSE]
Some(x) == [some |-> TRUE, val |-> x]

Ok(x) == [tag |-> "Ok", val |-> x]
Err(e) == [tag |-> "Err", err |-> e]

\* ExitStatus::Code / ExitStatus::OsSpecific
Code(n) == [tag |-> "Code", v |-> n]
OsSpecific(r) == [tag |-> "OsSpecific", v |-> r]
ExitStatuses == {Code(n) : n \in 0..MaxCode} \cup {OsSpecific(r) : r \in 0..MaxRaw}

\* io::Error values produced at the OS boundary
IoError(msg) == [error |-> "io::Error", msg |-> msg]

\* captured bytes (ExecResult.stdout / ExecResult.stderr)
OutBytes == <<>>
ErrBytes == <<1>>

\* struct ExecResult
ExecResult(es, out, err) == [exit_status |-> es, stdout |-> out, stderr |-> err]

\* struct UnexpectedExitStatus
UnexpectedExitStatus(g, e) == [error |-> "UnexpectedExitStatus", got |-> g, expected |-> e]

\* From<io::Error> / From<UnexpectedExitStatus> of the command's error type
Error_from_io(e) == [error |-> "Io", io |-> e]
Error_from_unexpected(u) == u

\* ------------------------------------------------------------ pipe setups
PipeSetups == {"Piped", "Inherit"}

\* --------------------------------------------------------- output mappings
TestOutputMapping(co, ce) ==
    [impl |-> "TestOutputMapping", capture_stdout |-> co, capture_stderr |-> ce]
ReturnError == [impl |-> "ReturnError", capture_stdout |-> FALSE, capture_stderr |-> FALSE]
OutputMappings == {TestOutputMapping(co, ce) : co \in BOOLEAN, ce \in BOOLEAN} \cup {ReturnError}

needs_captured_stdout(m) == m.capture_stdout
needs_captured_stderr(m) == m.capture_stderr

map_output(m, result) ==
    IF m.impl = "ReturnError"
    THEN Err([error |-> "BarFoot"])
    ELSE IF result.stdout.some # needs_captured_stdout(m)
         THEN Err([error |-> "Prop", what |-> "stdout"])
         ELSE IF result.stderr.some # needs_captured_stderr(m)
              THEN Err([error |-> "Prop", what |-> "stderr"])
              ELSE Ok(TRUE)

\* ---------------------------------------------------------- spawn backends
\* A backend is a script: whether spawn fails, whether waiting fails, the
\* exit status of the process and how it fills the captured streams.
Behaviours == {"spawn_fails", "wait_fails", "completes"}
CaptureModes == {"honor", "always", "never"}
MockSpawners ==
    [kind : {"mock"}, behaviour : Behaviours, exit_status : ExitStatuses, capture : CaptureModes]
SysSpawners ==
    [kind : {"sys"}, behaviour : Behaviours, exit_status : ExitStatuses, capture : {"honor"}]

Captured(mode, flag, bytes) ==
    IF mode = "always" \/ (mode = "honor" /\ flag) THEN Some(bytes) ELSE None

\* the pipe end left over for the caller
LeftOver(setup, captured) ==
    IF ~captured /\ setup = Some("Piped") THEN Some("pipe") ELSE None

Spawner_spawn(si, options, capture_stdout, capture_stderr) ==
    IF si.behaviour = "spawn_fails"
    THEN Err(IoError("failed spawn"))
    ELSE Ok([result |->
                 IF si.behaviour = "wait_fails"
                 THEN Err(IoError("failed wait"))
                 ELSE Ok(ExecResult(si.exit_status,
                                    Captured(si.capture, capture_stdout, OutBytes),
                                    Captured(si.capture, capture_stderr, ErrBytes))),
             stdout |-> LeftOver(options.custom_stdout_setup, capture_stdout),
             stderr |-> LeftOver(options.custom_stderr_setup, capture_stderr),
             stdin  |-> LeftOver(options.custom_stdin_setup, FALSE)])

ChildHandle_wait_with_output(handle) == handle.result

\* ---------------------------------------------------------------- Command
Programs == {"foo"}
ProgramsGiven == {"foo", "ls"}

\* EnvBuilder::new: inherit everything, no staged updates
EnvBuilder_new == [inherit_env |-> TRUE, env_updates |-> <<>>]

SpawnOptions_new(program) ==
    [program |-> program,
     arguments |-> <<>>,
     env_builder |-> EnvBuilder_new,
     working_directory_override |-> None,
     custom_stdout_setup |-> None,
     custom_stderr_setup |-> None,
     custom_stdin_setup |-> None]

\* Command::new variant: starts with exit status checking switched off
Command_new_unchecked(program, output_mapping, default_spawner) ==
    [spawn_options |-> SpawnOptions_new(program),
     expected_exit_status |-> None,
     output_mapping |-> output_mapping,
     spawn_impl |-> default_spawner]

Command_new(program, output_mapping, default_spawner) ==
    [spawn_options |-> SpawnOptions_new(program),
     expected_exit_status |-> Some(Code(0)),
     output_mapping |-> output_mapping,
     spawn_impl |-> default_spawner]

will_capture_stdout(cmd) == needs_captured_stdout(cmd.output_mapping)
will_capture_stderr(cmd) == needs_captured_stderr(cmd.output_mapping)

\* Command::spawn variant: a backend failure is kept inside the Child and only
\* surfaces when it is waited
Command_spawn_defers_failure(cmd) ==
    LET cs == needs_captured_stdout(cmd.output_mapping)
        ce == needs_captured_stderr(cmd.output_mapping)
        r  == Spawner_spawn(cmd.spawn_impl, cmd.spawn_options, cs, ce)
        call == [options |-> cmd.spawn_options, capture_stdout |-> cs,
                 capture_stderr |-> ce, ret |-> r]
        handle == IF r.tag = "Err"
                  THEN [result |-> Err(r.err), stdout |-> None,
                        stderr |-> None, stdin |-> None]
                  ELSE r.val
    IN  [call |-> call,
         ret |-> Ok([child |-> handle,
                     output_mapping |-> cmd.output_mapping,
                     expected_exit_status |-> cmd.expected_exit_status])]

\* Command::spawn variant: a custom pipe setup switches the capture flag off
Command_spawn_custom_overrides(cmd) ==
    LET cs == needs_captured_stdout(cmd.output_mapping)
                 /\ ~cmd.spawn_options.custom_stdout_setup.some
        ce == needs_captured_stderr(cmd.output_mapping)
                 /\ ~cmd.spawn_options.custom_stderr_setup.some
        r  == Spawner_spawn(cmd.spawn_impl, cmd.spawn_options, cs, ce)
        call == [options |-> cmd.spawn_options, capture_stdout |-> cs,
                 capture_stderr |-> ce, ret |-> r]
    IN  IF r.tag = "Err"
        THEN [call |-> call, ret |-> Err(r.err)]
        ELSE [call |-> call,
              ret |-> Ok([child |-> r.val,
                          output_mapping |-> cmd.output_mapping,
                          expected_exit_status |-> cmd.expected_exit_status])]

\* Command::spawn variant: the two capture flags are passed in the wrong order
Command_spawn_swapped(cmd) ==
    LET cs == needs_captured_stderr(cmd.output_mapping)
        ce == needs_captured_stdout(cmd.output_mapping)
        r  == Spawner_spawn(cmd.spawn_impl, cmd.spawn_options, cs, ce)
        call == [options |-> cmd.spawn_options, capture_stdout |-> cs,
                 capture_stderr |-> ce, ret |-> r]
    IN  IF r.tag = "Err"
        THEN [call |-> call, ret |-> Err(r.err)]
        ELSE [call |-> call,
              ret |-> Ok([child |-> r.val,
                          output_mapping |-> cmd.output_mapping,
                          expected_exit_status |-> cmd.expected_exit_status])]

\* Command::spawn: the call the backend receives and what spawn returns
\* Command::spawn variant: a stream the caller asked to have piped is left to
\* the caller instead of being captured
Command_spawn_piped_wins(cmd) ==
    LET cs == needs_captured_stdout(cmd.output_mapping)
                 /\ cmd.spawn_options.custom_stdout_setup # Some("Piped")
        ce == needs_captured_stderr(cmd.output_mapping)
                 /\ cmd.spawn_options.custom_stderr_setup # Some("Piped")
        r  == Spawner_spawn(cmd.spawn_impl, cmd.spawn_options, cs, ce)
        call == [options |-> cmd.spawn_options, capture_stdout |-> cs,
                 capture_stderr |-> ce, ret |-> r]
    IN  IF r.tag = "Err"
        THEN [call |-> call, ret |-> Err(r.err)]
        ELSE [call |-> call,
              ret |-> Ok([child |-> r.val,
                          output_mapping |-> cmd.output_mapping,
                          expected_exit_status |-> cmd.expected_exit_status])]

Command_spawn(cmd) ==
    LET cs == needs_captured_stdout(cmd.output_mapping)
        ce == needs_captured_stderr(cmd.output_mapping)
        r  == Spawner_spawn(cmd.spawn_impl, cmd.spawn_options, cs, ce)
        call == [options |-> cmd.spawn_options, capture_stdout |-> cs,
                 capture_stderr |-> ce, ret |-> r]
    IN  IF r.tag = "Err"
        THEN [call |-> call, ret |-> Err(r.err)]
        ELSE [call |-> call,
              ret |-> Ok([child |-> r.val,
                          output_mapping |-> cmd.output_mapping,
                          expected_exit_status |-> cmd.expected_exit_status])]

\* Child::wait variant: tests the result for success instead of comparing it
\* with the expected status
Child_wait_checks_success(ch) ==
    LET result == ChildHandle_wait_with_output(ch.child)
    IN  IF result.tag = "Err"
        THEN [waited |-> result, mapped |-> <<>>, ret |-> Err(Error_from_io(result.err))]
        ELSE IF ch.expected_exit_status.some
                /\ result.val.exit_status # Code(0)
             THEN [waited |-> result, mapped |-> <<>>,
                   ret |-> Err(Error_from_unexpected(
                              UnexpectedExitStatus(result.val.exit_status,
                                                   ch.expected_exit_status.val)))]
             ELSE LET m == map_output(ch.output_mapping, result.val)
                  IN  [waited |-> result,
                       mapped |-> <<[arg |-> result.val, ret |-> m]>>,
                       ret |-> m]

\* Child::wait variant: maps the output first and checks the status afterwards
Child_wait_maps_first(ch) ==
    LET result == ChildHandle_wait_with_output(ch.child)
    IN  IF result.tag = "Err"
        THEN [waited |-> result, mapped |-> <<>>, ret |-> Err(Error_from_io(result.err))]
        ELSE LET m == map_output(ch.output_mapping, result.val)
             IN  [waited |-> result,
                  mapped |-> <<[arg |-> result.val, ret |-> m]>>,
                  ret |-> IF ch.expected_exit_status.some
                             /\ ch.expected_exit_status.val # result.val.exit_status
                          THEN Err(Error_from_unexpected(
                                      UnexpectedExitStatus(result.val.exit_status,
                                                           ch.expected_exit_status.val)))
                          ELSE m]

\* Child::wait variant: a disabled expectation falls back to the default (0)
Child_wait_default_expectation(ch) ==
    LET result == ChildHandle_wait_with_output(ch.child)
        expected == IF ch.expected_exit_status.some
                    THEN ch.expected_exit_status.val ELSE Code(0)
    IN  IF result.tag = "Err"
        THEN [waited |-> result, mapped |-> <<>>, ret |-> Err(Error_from_io(result.err))]
        ELSE IF expected # result.val.exit_status
             THEN [waited |-> result, mapped |-> <<>>,
                   ret |-> Err(Error_from_unexpected(
                              UnexpectedExitStatus(result.val.exit_status, expected)))]
             ELSE LET m == map_output(ch.output_mapping, result.val)
                  IN  [waited |-> result,
                       mapped |-> <<[arg |-> result.val, ret |-> m]>>,
                       ret |-> m]

\* Child::wait variant: a mapping error is reported as a generic I/O failure
Child_wait_wraps_mapping_error(ch) ==
    LET result == ChildHandle_wait_with_output(ch.child)
    IN  IF result.tag = "Err"
        THEN [waited |-> result, mapped |-> <<>>, ret |-> Err(Error_from_io(result.err))]
        ELSE IF ch.expected_exit_status.some
                /\ ch.expected_exit_status.val # result.val.exit_status
             THEN [waited |-> result, mapped |-> <<>>,
                   ret |-> Err(Error_from_unexpected(
                              UnexpectedExitStatus(result.val.exit_status,
                                                   ch.expected_exit_status.val)))]
             ELSE LET m == map_output(ch.output_mapping, result.val)
                  IN  [waited |-> result,
                       mapped |-> <<[arg |-> result.val, ret |-> m]>>,
                       ret |-> IF m.tag = "Err"
                               THEN Err(Error_from_io(IoError("mapping failed")))
                               ELSE m]

\* Child::wait: what wait-to-completion returned, the map_output calls made
\* and the result handed to the caller
\* Child::wait variant: with checking disabled a failed wait is mapped like
\* an empty result
Child_wait_maps_failed_wait(ch) ==
    LET result == ChildHandle_wait_with_output(ch.child)
    IN  IF result.tag = "Err" /\ ch.expected_exit_status.some
        THEN [waited |-> result, mapped |-> <<>>, ret |-> Err(Error_from_io(result.err))]
        ELSE IF result.tag = "Err"
        THEN LET empty == ExecResult(Code(0), None, None)
                 m == map_output(ch.output_mapping, empty)
             IN  [waited |-> result, mapped |-> <<[arg |-> empty, ret |-> m]>>, ret |-> m]
        ELSE IF ch.expected_exit_status.some
                /\ ch.expected_exit_status.val # result.val.exit_status
             THEN [waited |-> result, mapped |-> <<>>,
                   ret |-> Err(Error_from_unexpected(
                              UnexpectedExitStatus(result.val.exit_status,
                                                   ch.expected_exit_status.val)))]
             ELSE LET m == map_output(ch.output_mapping, result.val)
                  IN  [waited |-> result,
                       mapped |-> <<[arg |-> result.val, ret |-> m]>>,
                       ret |-> m]

\* Child::wait variant: a result whose captured streams are not the needed
\* ones is refused before the mapping sees it
Child_wait_refuses_unneeded_capture(ch) ==
    LET result == ChildHandle_wait_with_output(ch.child)
    IN  IF result.tag = "Err"
        THEN [waited |-> result, mapped |-> <<>>, ret |-> Err(Error_from_io(result.err))]
        ELSE IF result.val.stdout.some # needs_captured_stdout(ch.output_mapping)
                \/ result.val.stderr.some # needs_captured_stderr(ch.output_mapping)
        THEN [waited |-> result, mapped |-> <<>>,
              ret |-> Err(Error_from_io(IoError("unexpected capture")))]
        ELSE IF ch.expected_exit_status.some
                /\ ch.expected_exit_status.val # result.val.exit_status
             THEN [waited |-> result, mapped |-> <<>>,
                   ret |-> Err(Error_from_unexpected(
                              UnexpectedExitStatus(result.val.exit_status,
                                                   ch.expected_exit_status.val)))]
             ELSE LET m == map_output(ch.output_mapping, result.val)
                  IN  [waited |-> result,
                       mapped |-> <<[arg |-> result.val, ret |-> m]>>,
                       ret |-> m]

\* Child::wait variant: the mapping is given the exit status only, the
\* captured output is dropped
Child_wait_maps_status_only(ch) ==
    LET result == ChildHandle_wait_with_output(ch.child)
    IN  IF result.tag = "Err"
        THEN [waited |-> result, mapped |-> <<>>, ret |-> Err(Error_from_io(result.err))]
        ELSE IF ch.expected_exit_status.some
                /\ ch.expected_exit_status.val # result.val.exit_status
             THEN [waited |-> result, mapped |-> <<>>,
                   ret |-> Err(Error_from_unexpected(
                              UnexpectedExitStatus(result.val.exit_status,
                                                   ch.expected_exit_status.val)))]
             ELSE LET given == ExecResult(result.val.exit_status, None, None)
                      m == map_output(ch.output_mapping, given)
                  IN  [waited |-> result,
                       mapped |-> <<[arg |-> given, ret |-> m]>>,
                       ret |-> m]

Child_wait(ch) ==
    LET result == ChildHandle_wait_with_output(ch.child)
    IN  IF result.tag = "Err"
        THEN [waited |-> result, mapped |-> <<>>, ret |-> Err(Error_from_io(result.err))]
        ELSE IF ch.expected_exit_status.some
                /\ ch.expected_exit_status.val # result.val.exit_status
             THEN [waited |-> result, mapped |-> <<>>,
                   ret |-> Err(Error_from_unexpected(
                              UnexpectedExitStatus(result.val.exit_status,
                                                   ch.expected_exit_status.val)))]
             ELSE LET m == map_output(ch.output_mapping, result.val)
                  IN  [waited |-> result,
                       mapped |-> <<[arg |-> result.val, ret |-> m]>>,
                       ret |-> m]

\* ------------------------------------------------------------------ state
VARIABLES
    phase,          \* "Configuring" | "Spawned" | "Completed"
    command,        \* Some(Command) while Configuring, None once consumed
    child,          \* Some(Child) while Spawned, None otherwise
    needs_at_new,   \* capture needs the mapping reported when Command::new ran
    at_spawn,       \* the Command as it was consumed by spawn
    via,            \* "none" | "spawn" | "run": how the command was started
    spawn_log,      \* calls the backend's spawn received
    wait_log,       \* results of wait-to-completion
    map_log,        \* calls of map_output: argument and return value
    take_log,       \* results of take_stdout / take_stderr / take_stdin
    outcome,        \* results delivered to the caller of wait / run / spawn
    config_log,     \* what the configuration calls were given, in call order
    ambient,        \* the environment of the calling process (std::env)
    created_map,    \* the map EnvBuilder::build_on last filled
    os,             \* the child process and its pipes at the OS level
    shared          \* commands that share one spawn backend

world == <<ambient, created_map, os, shared>>

vars == <<phase, command, child, needs_at_new, at_spawn, via,
          spawn_log, wait_log, map_log, take_log, outcome,
          config_log, ambient, created_map, os, shared>>

\* nothing recorded yet: no configuration call was made on the Command;
\* on: whether the calls of this Command are recorded at all
NoCalls(on, program) ==
    [on |-> on, fresh |-> TRUE, program |-> program,
     status |-> None, args |-> <<>>, env |-> <<>>, inherit |-> TRUE,
     budget |-> None]

Init ==
    /\ phase = "Configuring"
    /\ \E p \in Programs, m \in OutputMappings, d \in SysSpawners :
          /\ command = Some(Command_new(p, m, d))
          /\ needs_at_new = [stdout |-> needs_captured_stdout(m),
                             stderr |-> needs_captured_stderr(m)]
          /\ config_log = NoCalls(FALSE, p)
    /\ child = None
    /\ at_spawn = None
    /\ via = "none"
    /\ spawn_log = <<>>
    /\ wait_log = <<>>
    /\ map_log = <<>>
    /\ take_log = <<>>
    /\ outcome = <<>>
    /\ ambient = <<>>
    /\ created_map = None
    /\ os = None
    /\ shared = None

\* ---------------------------------------------------- configuration calls
\* a builder method: consumes the Command and returns the changed one
\* what a configuration call takes from a limited budget of settings: one
\* for each argument or environment update it passes, and at least one
Cost(log) ==
    LET items == (Len(log.args) - Len(config_log.args))
                     + (Len(log.env) - Len(config_log.env))
    IN  IF items > 1 THEN items ELSE 1

ConfigureLogged(cmd, log) ==
    /\ phase = "Configuring"
    /\ config_log.budget.some => config_log.budget.val >= Cost(log)
    /\ command' = Some(cmd)
    /\ config_log' = IF ~config_log.on THEN config_log
                     ELSE IF log.budget.some
                          THEN [log EXCEPT !.budget = Some(@.val - Cost(log))]
                          ELSE log
    /\ UNCHANGED <<phase, child, needs_at_new, at_spawn, via,
                   spawn_log, wait_log, map_log, take_log, outcome, world>>

Configure(cmd) == ConfigureLogged(cmd, [config_log EXCEPT !.fresh = FALSE])

\* the expected-exit-status call made before the one being recorded
LastStatusCall == IF config_log.status.some THEN config_log.status.val.call ELSE "none"

\* ----- arguments
ArgValues == {"-c", "arg1"}
ArgLists == UNION {[1..n -> ArgValues] : n \in 0..MaxBulk}

\* Command::with_arguments variant: new arguments are put in front
Command_with_arguments_prepends(cmd, args) ==
    [cmd EXCEPT !.spawn_options.arguments = args \o @]

Command_with_arguments(cmd, args) ==
    [cmd EXCEPT !.spawn_options.arguments = @ \o args]

Command_with_argument(cmd, arg) ==
    [cmd EXCEPT !.spawn_options.arguments = Append(@, arg)]

with_arguments ==
    /\ phase = "Configuring"
    /\ \E args \in ArgLists :
          /\ Len(command.val.spawn_options.arguments) + Len(args) <= MaxArgs
          /\ ConfigureLogged(Command_with_arguments(command.val, args),
                             [config_log EXCEPT !.fresh = FALSE, !.args = @ \o args])

with_argument ==
    /\ phase = "Configuring"
    /\ \E arg \in ArgValues :
          /\ Len(command.val.spawn_options.arguments) + 1 <= MaxArgs
          /\ ConfigureLogged(Command_with_argument(command.val, arg),
                             [config_log EXCEPT !.fresh = FALSE, !.args = Append(@, arg)])

\* ----- working directory
Paths == {"/usr", "/tmp"}

\* Command::with_working_directory_override variant: the Command is built
\* anew around the changed options
with_working_directory_override_rebuilds ==
    \E wd \in {None} \cup {Some(d) : d \in Paths} :
        Configure([Command_new(command.val.spawn_options.program,
                               command.val.output_mapping,
                               command.val.spawn_impl)
                      EXCEPT !.spawn_options =
                          [command.val.spawn_options
                              EXCEPT !.working_directory_override = wd]])

with_working_directory_override ==
    \E wd \in {None} \cup {Some(d) : d \in Paths} :
        Configure([command.val EXCEPT !.spawn_options.working_directory_override = wd])

\* Command::with_expected_exit_status variant: replaces the expected status
\* only while checking is enabled
Command_with_expected_exit_status_keeps_disabled(cmd, exit_status) ==
    [cmd EXCEPT !.expected_exit_status = IF @.some THEN Some(exit_status) ELSE @]

Command_with_expected_exit_status(cmd, exit_status) ==
    [cmd EXCEPT !.expected_exit_status = Some(exit_status)]

with_expected_exit_status ==
    \E s \in ExitStatuses :
        ConfigureLogged(Command_with_expected_exit_status(command.val, s),
                        [config_log EXCEPT !.fresh = FALSE,
                                           !.status = Some([call |-> "with", arg |-> s,
                                                            prev |-> LastStatusCall])])

without_expected_exit_status ==
    ConfigureLogged([command.val EXCEPT !.expected_exit_status = None],
                    [config_log EXCEPT !.fresh = FALSE,
                                       !.status = Some([call |-> "without",
                                                        prev |-> LastStatusCall])])

with_custom_stdout_setup ==
    \E p \in PipeSetups :
        Configure([command.val EXCEPT !.spawn_options.custom_stdout_setup = Some(p)])

without_custom_stdout_setup ==
    Configure([command.val EXCEPT !.spawn_options.custom_stdout_setup = None])

with_custom_stderr_setup ==
    \E p \in PipeSetups :
        Configure([command.val EXCEPT !.spawn_options.custom_stderr_setup = Some(p)])

without_custom_stderr_setup ==
    Configure([command.val EXCEPT !.spawn_options.custom_stderr_setup = None])

with_custom_stdin_setup ==
    \E p \in PipeSetups :
        Configure([command.val EXCEPT !.spawn_options.custom_stdin_setup = Some(p)])

without_custom_stdin_setup ==
    Configure([command.val EXCEPT !.spawn_options.custom_stdin_setup = None])

with_spawn_impl ==
    \E si \in MockSpawners :
        Configure([command.val EXCEPT !.spawn_impl = si])

\* ------------------------------------------------------------ spawn / wait
\* Command::spawn variant: spawn also waits for the process to complete
spawn_waits_at_once ==
    /\ phase = "Configuring"
    /\ LET s == Command_spawn(command.val)
       IN  /\ spawn_log' = Append(spawn_log, s.call)
           /\ IF s.ret.tag = "Err"
              THEN /\ phase' = "Completed"
                   /\ child' = None
                   /\ outcome' = Append(outcome, Err(s.ret.err))
                   /\ wait_log' = wait_log
              ELSE /\ phase' = "Spawned"
                   /\ child' = Some(s.ret.val)
                   /\ outcome' = outcome
                   /\ wait_log' = Append(wait_log,
                                         ChildHandle_wait_with_output(s.ret.val.child))
    /\ at_spawn' = command
    /\ command' = None
    /\ via' = "spawn"
    /\ UNCHANGED <<needs_at_new, config_log, world, map_log, take_log>>

spawn ==
    /\ phase = "Configuring"
    /\ LET s == Command_spawn(command.val)
       IN  /\ spawn_log' = Append(spawn_log, s.call)
           /\ IF s.ret.tag = "Err"
              THEN /\ phase' = "Completed"
                   /\ child' = None
                   /\ outcome' = Append(outcome, Err(s.ret.err))
              ELSE /\ phase' = "Spawned"
                   /\ child' = Some(s.ret.val)
                   /\ outcome' = outcome
    /\ at_spawn' = command
    /\ command' = None
    /\ via' = "spawn"
    /\ UNCHANGED <<needs_at_new, config_log, world, wait_log, map_log, take_log>>

\* Child::wait variant: the Child stays usable after it was waited
wait_keeps_child ==
    /\ phase = "Spawned"
    /\ LET w == Child_wait(child.val)
       IN  /\ wait_log' = Append(wait_log, w.waited)
           /\ map_log' = map_log \o w.mapped
           /\ outcome' = Append(outcome, w.ret)
    /\ UNCHANGED <<phase, child, command, needs_at_new, config_log, world, at_spawn, via, spawn_log, take_log>>

wait ==
    /\ phase = "Spawned"
    /\ LET w == Child_wait(child.val)
       IN  /\ wait_log' = Append(wait_log, w.waited)
           /\ map_log' = map_log \o w.mapped
           /\ outcome' = Append(outcome, w.ret)
    /\ phase' = "Completed"
    /\ child' = None
    /\ UNCHANGED <<command, needs_at_new, config_log, world, at_spawn, via, spawn_log, take_log>>

\* Command::run variant: a failed spawn is tried a second time
run_retries_spawn ==
    /\ phase = "Configuring"
    /\ LET first == Command_spawn(command.val)
           s == IF first.ret.tag = "Err" THEN Command_spawn(command.val) ELSE first
       IN  /\ spawn_log' = IF first.ret.tag = "Err"
                           THEN spawn_log \o <<first.call, s.call>>
                           ELSE Append(spawn_log, s.call)
           /\ IF s.ret.tag = "Err"
              THEN /\ outcome' = Append(outcome, Err(Error_from_io(s.ret.err)))
                   /\ UNCHANGED <<wait_log, map_log>>
              ELSE LET w == Child_wait(s.ret.val)
                   IN  /\ wait_log' = Append(wait_log, w.waited)
                       /\ map_log' = map_log \o w.mapped
                       /\ outcome' = Append(outcome, w.ret)
    /\ phase' = "Completed"
    /\ child' = None
    /\ at_spawn' = command
    /\ command' = None
    /\ via' = "run"
    /\ UNCHANGED <<needs_at_new, config_log, world, take_log>>

\* Command::run: self.spawn()?.wait()
run ==
    /\ phase = "Configuring"
    /\ LET s == Command_spawn(command.val)
       IN  /\ spawn_log' = Append(spawn_log, s.call)
           /\ IF s.ret.tag = "Err"
              THEN /\ outcome' = Append(outcome, Err(Error_from_io(s.ret.err)))
                   /\ UNCHANGED <<wait_log, map_log>>
              ELSE LET w == Child_wait(s.ret.val)
                   IN  /\ wait_log' = Append(wait_log, w.waited)
                       /\ map_log' = map_log \o w.mapped
                       /\ outcome' = Append(outcome, w.ret)
    /\ phase' = "Completed"
    /\ child' = None
    /\ at_spawn' = command
    /\ command' = None
    /\ via' = "run"
    /\ UNCHANGED <<needs_at_new, config_log, world, take_log>>

\* ---------------------------------------------------------- pipe extraction
Take(stream) ==
    /\ phase = "Spawned"
    /\ take_log' = Append(take_log, [stream |-> stream, got |-> child.val.child[stream]])
    /\ child' = Some([child.val EXCEPT !.child[stream] = None])
    /\ UNCHANGED <<phase, command, needs_at_new, config_log, world, at_spawn, via,
                   spawn_log, wait_log, map_log, outcome>>

MaxTakes == 2       \* pipe extractions recorded per child

take_stdout == Len(take_log) < MaxTakes /\ Take("stdout")

\* Child::take_stderr variant: it hands out the stdout pipe end
take_stderr_hands_out_stdout ==
    /\ Len(take_log) < MaxTakes
    /\ phase = "Spawned"
    /\ take_log' = Append(take_log, [stream |-> "stderr", got |-> child.val.child.stdout])
    /\ child' = Some([child.val EXCEPT !.child.stdout = None])
    /\ UNCHANGED <<phase, command, needs_at_new, config_log, world, at_spawn, via,
                   spawn_log, wait_log, map_log, outcome>>

take_stderr == Len(take_log) < MaxTakes /\ Take("stderr")
take_stdin  == Len(take_log) < MaxTakes /\ Take("stdin")

Next ==
    \/ with_expected_exit_status
    \/ without_expected_exit_status
    \/ with_custom_stdout_setup
    \/ without_custom_stdout_setup
    \/ with_custom_stderr_setup
    \/ without_custom_stderr_setup
    \/ with_custom_stdin_setup
    \/ without_custom_stdin_setup
    \/ with_spawn_impl
    \/ spawn
    \/ wait
    \/ run
    \/ take_stdout
    \/ take_stderr
    \/ take_stdin

Spec == Init /\ [][Next]_vars

\* An output mapping with interior state: the answers of
\* needs_captured_stdout / needs_captured_stderr change while the Command
\* that owns the mapping is still being configured.
mapping_state_changes ==
    /\ phase = "Configuring"
    /\ command.val.output_mapping.impl = "TestOutputMapping"
    /\ \E co \in BOOLEAN, ce \in BOOLEAN :
          ConfigureLogged([command.val EXCEPT !.output_mapping.capture_stdout = co,
                                              !.output_mapping.capture_stderr = ce],
                          config_log)

NextImpure ==
    \/ Next
    \/ mapping_state_changes

SpecImpure == Init /\ [][NextImpure]_vars

\* ================================================================= claims

\* C1: with an expected exit status e, a wait-to-completion result with exit
\* status s makes wait/run fail with UnexpectedExitStatus iff s # e, and the
\* error carries got = s and expected = e (equality with e, not success).
C1_UnexpectedExitStatusIffDiffers ==
    (at_spawn.some /\ Len(wait_log) = 1 /\ wait_log[1].tag = "Ok"
        /\ at_spawn.val.expected_exit_status.some)
    => LET e == at_spawn.val.expected_exit_status.val
           s == wait_log[1].val.exit_status
           o == outcome[Len(outcome)]
       IN  /\ Len(outcome) = 1
           /\ (o.tag = "Err" /\ o.err.error = "UnexpectedExitStatus") <=> (s # e)
           /\ (s # e) => o = Err(UnexpectedExitStatus(s, e))

\* C1 witness: exit code 0 is rejected when the expected status is 1
C1_Witness ==
    /\ phase = "Completed"
    /\ at_spawn.val.expected_exit_status = Some(Code(1))
    /\ Len(wait_log) = 1 /\ wait_log[1].tag = "Ok"
    /\ wait_log[1].val.exit_status = Code(0)
    /\ outcome = <<Err(UnexpectedExitStatus(Code(0), Code(1)))>>

\* C2: map_output is invoked at most once per run, only after wait-to-completion
\* succeeded and the status check passed (always when checking is disabled),
\* and never when the exit status differs from the expectation.
C2_MapOutputAtMostOnceAfterCheck ==
    /\ Len(map_log) <= 1
    /\ Len(map_log) = 1 =>
          /\ Len(wait_log) = 1 /\ wait_log[1].tag = "Ok"
          /\ at_spawn.val.expected_exit_status.some =>
                at_spawn.val.expected_exit_status.val = wait_log[1].val.exit_status
    /\ (Len(wait_log) = 1 /\ wait_log[1].tag = "Ok"
           /\ ~at_spawn.val.expected_exit_status.some)
          => Len(map_log) = 1

\* C2 witness: the run completed with a status mismatch and map_output was
\* not invoked
C2_Witness ==
    /\ phase = "Completed"
    /\ Len(wait_log) = 1 /\ wait_log[1].tag = "Ok"
    /\ at_spawn.val.expected_exit_status.some
    /\ at_spawn.val.expected_exit_status.val # wait_log[1].val.exit_status
    /\ map_log = <<>>
    /\ Len(outcome) = 1

\* C3: with status checking disabled, no exit status makes the pipeline fail
\* with UnexpectedExitStatus, and map_output receives the ExecResult whatever
\* its status is.
C3_DisabledCheckNeverRejects ==
    (at_spawn.some /\ ~at_spawn.val.expected_exit_status.some
        /\ Len(wait_log) = 1 /\ wait_log[1].tag = "Ok")
    => /\ Len(map_log) = 1
       /\ map_log[1].arg = wait_log[1].val
       /\ Len(outcome) = 1
       /\ outcome[1].tag = "Err" => outcome[1].err.error # "UnexpectedExitStatus"

\* C3 witness: checking disabled, the process ended with a status other than
\* code 0 and the mapping was given that result
C3_Witness ==
    /\ phase = "Completed"
    /\ ~at_spawn.val.expected_exit_status.some
    /\ Len(wait_log) = 1 /\ wait_log[1].tag = "Ok"
    /\ wait_log[1].val.exit_status = OsSpecific(0)
    /\ Len(map_log) = 1 /\ map_log[1].arg.exit_status = OsSpecific(0)

\* C4: when wait-to-completion succeeds and the status check passes or is
\* disabled, wait returns exactly what map_output returned.
C4_MappingOutcomeVerbatim ==
    (Len(wait_log) = 1 /\ wait_log[1].tag = "Ok"
        /\ (~at_spawn.val.expected_exit_status.some
            \/ at_spawn.val.expected_exit_status.val = wait_log[1].val.exit_status))
    => /\ Len(map_log) = 1
       /\ outcome = <<map_log[1].ret>>

\* C4 witness: checking disabled, non-zero status, the mapping's own error is
\* what the caller gets
C4_Witness ==
    /\ phase = "Completed"
    /\ ~at_spawn.val.expected_exit_status.some
    /\ Len(wait_log) = 1 /\ wait_log[1].tag = "Ok"
    /\ wait_log[1].val.exit_status = Code(1)
    /\ Len(map_log) = 1 /\ map_log[1].ret = Err([error |-> "BarFoot"])
    /\ outcome = <<Err([error |-> "BarFoot"])>>

\* C5: if the backend's spawn returns an I/O error, spawn returns that error,
\* no Child is produced and wait-to-completion, the status check and
\* map_output are never reached; a wait failure only occurs after the backend
\* produced a live handle.
C5_SpawnFailureProducesNoChild ==
    /\ (Len(spawn_log) >= 1 /\ spawn_log[1].ret.tag = "Err") =>
          /\ phase = "Completed"
          /\ child = None
          /\ wait_log = <<>> /\ map_log = <<>> /\ take_log = <<>>
          /\ outcome = <<Err(IF via = "run"
                             THEN Error_from_io(spawn_log[1].ret.err)
                             ELSE spawn_log[1].ret.err)>>
    /\ Len(wait_log) >= 1 =>
          /\ spawn_log[1].ret.tag = "Ok"
          /\ wait_log[1].tag = "Err" =>
                outcome[Len(outcome)] = Err(Error_from_io(wait_log[1].err))

\* C5 witness: Command::spawn has returned the backend's I/O error
C5_Witness ==
    /\ via = "spawn"
    /\ Len(spawn_log) = 1 /\ spawn_log[1].ret = Err(IoError("failed spawn"))
    /\ child = None
    /\ outcome = <<Err(IoError("failed spawn"))>>

\* C6: run is spawn followed by wait with the first failure returned: the
\* backend's spawn is called exactly once, wait-to-completion at most once and
\* never after a spawn failure, and the caller gets exactly one outcome, the
\* one spawn-then-wait gives.
C6_RunIsSpawnThenWait ==
    (phase = "Completed" /\ via \in {"run", "spawn"})
    => LET s == Command_spawn(at_spawn.val)
       IN  /\ spawn_log = <<s.call>>
           /\ Len(wait_log) <= 1
           /\ Len(outcome) = 1
           /\ IF s.ret.tag = "Err"
              THEN /\ wait_log = <<>>
                   /\ map_log = <<>>
                   /\ outcome = <<Err(IF via = "run"
                                      THEN Error_from_io(s.ret.err)
                                      ELSE s.ret.err)>>
              ELSE LET w == Child_wait(s.ret.val)
                   IN  /\ wait_log = <<w.waited>>
                       /\ map_log = w.mapped
                       /\ outcome = <<w.ret>>

\* C6 witness: a run whose spawn failed: one spawn call, no wait, one outcome
C6_Witness ==
    /\ via = "run"
    /\ Len(spawn_log) = 1 /\ spawn_log[1].ret.tag = "Err"
    /\ wait_log = <<>>
    /\ outcome = <<Err(Error_from_io(IoError("failed spawn")))>>

\* C7: the lifecycle only moves forward Configuring -> Spawned -> Completed:
\* configuration only before spawn, at most one spawn, at most one wait, pipe
\* extraction only while Spawned, and nothing can be done after completion.
C7_LifecycleOnlyForward ==
    [][LET Rank(p) == CASE p = "Configuring" -> 0
                        [] p = "Spawned" -> 1
                        [] p = "Completed" -> 2
       IN  /\ Rank(phase') >= Rank(phase)
           /\ command' # command => phase = "Configuring"
           /\ spawn_log' # spawn_log =>
                 /\ phase = "Configuring" /\ phase' # "Configuring"
                 /\ Len(spawn_log') = 1
           /\ wait_log' # wait_log =>
                 /\ phase \in {"Configuring", "Spawned"} /\ phase' = "Completed"
                 /\ Len(wait_log') = 1
           /\ take_log' # take_log => phase = "Spawned" /\ phase' = "Spawned"
           /\ command'.some <=> phase' = "Configuring"
           /\ child'.some <=> phase' = "Spawned"
           /\ phase # "Completed"
      ]_vars

\* C7 witness: a command that was configured, spawned, had a pipe taken and
\* was waited
C7_Witness ==
    /\ phase = "Completed"
    /\ via = "spawn"
    /\ Len(take_log) >= 1
    /\ Len(wait_log) = 1
    /\ command = None /\ child = None

\* C8: after any configuration calls, the capture flags the backend receives
\* in spawn and the values of will_capture_stdout / will_capture_stderr are
\* exactly the needs the mapping declares.
C8_CaptureFlagsAreDeclaredNeeds ==
    /\ Len(spawn_log) >= 1 =>
          /\ spawn_log[1].capture_stdout = needs_at_new.stdout
          /\ spawn_log[1].capture_stderr = needs_at_new.stderr
    /\ phase = "Configuring" =>
          /\ will_capture_stdout(command.val) = needs_at_new.stdout
          /\ will_capture_stderr(command.val) = needs_at_new.stderr

\* C8 witness: custom pipe setups were configured on both streams and the
\* backend still received the mapping's needs (stdout yes, stderr no)
C8_Witness ==
    /\ Len(spawn_log) = 1
    /\ spawn_log[1].options.custom_stdout_setup = Some("Piped")
    /\ spawn_log[1].options.custom_stderr_setup = Some("Piped")
    /\ spawn_log[1].capture_stdout = TRUE
    /\ spawn_log[1].capture_stderr = FALSE
    /\ at_spawn.val.spawn_impl.kind = "mock"

\* C9: the capture needs are read once at Command::new and frozen: even if
\* the mapping's answers change between new and spawn, the flags passed to the
\* backend equal the answers given at construction.
C9_CaptureNeedsFrozenAtConstruction ==
    \A i \in 1..Len(spawn_log) :
        /\ spawn_log[i].capture_stdout = needs_at_new.stdout
        /\ spawn_log[i].capture_stderr = needs_at_new.stderr

\* C10: with a backend that fills the captured streams according to the
\* flags it was given, the ExecResult passed to map_output has stdout present
\* iff stdout capture is needed and stderr present iff stderr capture is needed.
C10_CapturedStreamsMatchNeeds ==
    (Len(map_log) = 1 /\ at_spawn.val.spawn_impl.capture = "honor")
    => /\ map_log[1].arg.stdout.some = needs_captured_stdout(at_spawn.val.output_mapping)
       /\ map_log[1].arg.stderr.some = needs_captured_stderr(at_spawn.val.output_mapping)

\* C10 witness: stdout needed and stderr not: map_output got stdout only
C10_Witness ==
    /\ Len(map_log) = 1
    /\ at_spawn.val.spawn_impl.capture = "honor"
    /\ needs_captured_stdout(at_spawn.val.output_mapping)
    /\ ~needs_captured_stderr(at_spawn.val.output_mapping)
    /\ map_log[1].arg.stdout = Some(OutBytes)
    /\ map_log[1].arg.stderr = None
    /\ outcome = <<Ok(TRUE)>>

\* ------------------------------------------- configuration of the options
\* the backend a Command starts with: a real process that runs to completion
DefaultSpawners ==
    {d \in SysSpawners : d.behaviour = "completes" /\ d.exit_status = Code(0)}

InitOptions ==
    /\ phase = "Configuring"
    /\ \E p \in ProgramsGiven, m \in OutputMappings, d \in DefaultSpawners :
          /\ command = Some(Command_new(p, m, d))
          /\ needs_at_new = [stdout |-> needs_captured_stdout(m),
                             stderr |-> needs_captured_stderr(m)]
          /\ config_log = NoCalls(TRUE, p)
    /\ child = None
    /\ at_spawn = None
    /\ via = "none"
    /\ spawn_log = <<>>
    /\ wait_log = <<>>
    /\ map_log = <<>>
    /\ take_log = <<>>
    /\ outcome = <<>>
    /\ ambient = <<>>
    /\ created_map = None
    /\ os = None
    /\ shared = None

NextOptions ==
    \/ with_arguments
    \/ with_argument
    \/ with_working_directory_override
    \/ with_expected_exit_status
    \/ without_expected_exit_status
    \/ spawn

SpecOptions == InitOptions /\ [][NextOptions]_vars

\* C11: a freshly constructed Command checks for exit status 0, has no
\* arguments, no staged environment updates, inherits the environment, has no
\* working directory override and no custom pipe setups, and its program is
\* the one given to Command::new.
C11_FreshCommandDefaults ==
    (phase = "Configuring" /\ config_log.on /\ config_log.fresh)
    => /\ command.val.expected_exit_status = Some(Code(0))
       /\ command.val.spawn_options.program = config_log.program
       /\ command.val.spawn_options.arguments = <<>>
       /\ DOMAIN command.val.spawn_options.env_builder.env_updates = {}
       /\ command.val.spawn_options.env_builder.inherit_env = TRUE
       /\ command.val.spawn_options.working_directory_override = None
       /\ command.val.spawn_options.custom_stdout_setup = None
       /\ command.val.spawn_options.custom_stderr_setup = None
       /\ command.val.spawn_options.custom_stdin_setup = None

\* C11 witness: Command::new("ls", ..) before any configuration call
C11_Witness ==
    /\ phase = "Configuring"
    /\ config_log.on /\ config_log.fresh
    /\ config_log.program = "ls"
    /\ command.val.spawn_options.program = "ls"
    /\ command.val.expected_exit_status = Some(Code(0))

\* C12: after any sequence of with_expected_exit_status(x) and
\* without_expected_exit_status calls, checking is enabled iff the last such
\* call was with_expected_exit_status, and the expected status is its argument.
C12_LastStatusCallDecides ==
    (phase = "Configuring" /\ config_log.on /\ config_log.status.some)
    => LET last == config_log.status.val
       IN  /\ command.val.expected_exit_status.some <=> last.call = "with"
           /\ last.call = "with" => command.val.expected_exit_status = Some(last.arg)

\* C12 witness: checking was disabled and then set to the default 0 again
C12_Witness ==
    /\ phase = "Configuring"
    /\ config_log.status.some
    /\ config_log.status.val.call = "with"
    /\ config_log.status.val.prev = "without"
    /\ config_log.status.val.arg = Code(0)
    /\ command.val.expected_exit_status = Some(Code(0))

\* C13: the argument list is the concatenation, in call order, of everything
\* given to with_argument / with_arguments.
C13_ArgumentsAreAppended ==
    /\ (phase = "Configuring" /\ config_log.on)
          => command.val.spawn_options.arguments = config_log.args
    /\ (config_log.on /\ Len(spawn_log) >= 1)
          => spawn_log[1].options.arguments = config_log.args

\* C13 witness: three arguments reached the backend in call order, with a
\* duplicate kept
C13_Witness ==
    /\ config_log.on
    /\ Len(spawn_log) = 1
    /\ config_log.args = <<"arg1", "-c", "-c">>
    /\ spawn_log[1].options.arguments = <<"arg1", "-c", "-c">>

\* ------------------------------------------------------------ environment
MaxEnvCalls == 3

EnvKeys == {"FOOBAR", "DODO"}
EnvValues == {"a", "b"}

\* EnvUpdate::{Set(value), Unset, Inherit}
Set(value) == [op |-> "Set", value |-> value]
Unset == [op |-> "Unset"]
Inherit == [op |-> "Inherit"]
EnvUpdates == {Set(v) : v \in EnvValues} \cup {Unset, Inherit}

EnvPairs == [key : EnvKeys, update : EnvUpdates]
EnvPairLists == UNION {[1..n -> EnvPairs] : n \in 0..MaxBulk}

\* the environment of the calling process: a map from some keys to values
Ambients == UNION {[ks -> EnvValues] : ks \in SUBSET EnvKeys}

\* HashMap::insert / HashMap::remove
MapInsert(m, key, v) == [k \in DOMAIN m \cup {key} |-> IF k = key THEN v ELSE m[k]]
MapRemove(m, key) == [k \in DOMAIN m \ {key} |-> m[k]]

EnvBuilder_insert_update(eb, key, update) ==
    [eb EXCEPT !.env_updates = MapInsert(eb.env_updates, key, update)]

RECURSIVE EnvBuilder_extend(_, _)
EnvBuilder_extend(eb, pairs) ==
    IF pairs = <<>>
    THEN eb
    ELSE EnvBuilder_extend(EnvBuilder_insert_update(eb, Head(pairs).key, Head(pairs).update),
                           Tail(pairs))

EnvBuilder_set_inherit_env(eb, do_inherit) == [eb EXCEPT !.inherit_env = do_inherit]

\* one staged update applied to the map that is being built
ApplyUpdate(map, amb, key, update) ==
    CASE update.op = "Set"     -> MapInsert(map, key, update.value)
      [] update.op = "Unset"   -> MapRemove(map, key)
      [] update.op = "Inherit" -> IF key \in DOMAIN amb
                                  THEN MapInsert(map, key, amb[key])
                                  ELSE MapRemove(map, key)

RECURSIVE ApplyUpdates(_, _, _, _)
ApplyUpdates(map, amb, updates, keys) ==
    IF keys = {}
    THEN map
    ELSE LET k == CHOOSE x \in keys : TRUE
         IN  ApplyUpdates(ApplyUpdate(map, amb, k, updates[k]), amb, updates, keys \ {k})

\* EnvBuilder::build_on with an empty map to build on
EnvBuilder_build_on(eb, amb) ==
    ApplyUpdates(IF eb.inherit_env THEN amb ELSE <<>>, amb,
                 eb.env_updates, DOMAIN eb.env_updates)

\* Command::with_env_updates variant: a key that is already staged keeps its
\* update
RECURSIVE Command_with_env_updates_keeps_first(_, _)
Command_with_env_updates_keeps_first(cmd, map) ==
    IF map = <<>>
    THEN cmd
    ELSE LET eb == cmd.spawn_options.env_builder
             next == IF Head(map).key \in DOMAIN eb.env_updates
                     THEN eb
                     ELSE EnvBuilder_insert_update(eb, Head(map).key, Head(map).update)
         IN  Command_with_env_updates_keeps_first(
                 [cmd EXCEPT !.spawn_options.env_builder = next], Tail(map))

Command_with_env_updates(cmd, map) ==
    [cmd EXCEPT !.spawn_options.env_builder = EnvBuilder_extend(@, map)]

\* Command::with_env_update variant: EnvUpdate::Inherit is taken as "no update"
\* and drops what is staged for the key
Command_with_env_update_inherit_clears(cmd, key, value) ==
    [cmd EXCEPT !.spawn_options.env_builder =
        IF value.op = "Inherit"
        THEN [@ EXCEPT !.env_updates = MapRemove(@, key)]
        ELSE EnvBuilder_insert_update(@, key, value)]

\* Command::with_env_update variant: EnvUpdate::Inherit is resolved when it
\* is staged, with the environment of that moment
Command_with_env_update_reads_ambient(cmd, key, value) ==
    [cmd EXCEPT !.spawn_options.env_builder =
        EnvBuilder_insert_update(@, key,
            IF value.op = "Inherit"
            THEN IF key \in DOMAIN ambient THEN Set(ambient[key]) ELSE Unset
            ELSE value)]

Command_with_env_update(cmd, key, value) ==
    [cmd EXCEPT !.spawn_options.env_builder = EnvBuilder_insert_update(@, key, value)]

\* Command::with_inherit_env variant: the flag can only be switched on
Command_with_inherit_env_only_enables(cmd, do_inherit) ==
    [cmd EXCEPT !.spawn_options.env_builder =
        EnvBuilder_set_inherit_env(@, @.inherit_env \/ do_inherit)]

Command_with_inherit_env(cmd, do_inherit) ==
    [cmd EXCEPT !.spawn_options.env_builder = EnvBuilder_set_inherit_env(@, do_inherit)]

with_env_updates ==
    \E map \in EnvPairLists :
        /\ Len(config_log.env) + Len(map) <= MaxEnvCalls
        /\ ConfigureLogged(Command_with_env_updates(command.val, map),
                           [config_log EXCEPT !.fresh = FALSE, !.env = @ \o map])

with_env_update ==
    \E key \in EnvKeys, value \in EnvUpdates :
        /\ Len(config_log.env) + 1 <= MaxEnvCalls
        /\ ConfigureLogged(Command_with_env_update(command.val, key, value),
                           [config_log EXCEPT !.fresh = FALSE,
                               !.env = Append(@, [key |-> key, update |-> value])])

with_inherit_env ==
    \E do_inherit \in BOOLEAN :
        ConfigureLogged(Command_with_inherit_env(command.val, do_inherit),
                        [config_log EXCEPT !.fresh = FALSE, !.inherit = do_inherit])

\* cmd.env_builder.clone().build_on(&mut created_map) with the environment of
\* the calling process; the calls that configured the builder are kept with
\* the result
build_on ==
    /\ phase = "Configuring"
    /\ created_map' = Some([env_calls |-> config_log.env,
                            inherit |-> config_log.inherit,
                            ambient |-> ambient,
                            map |-> EnvBuilder_build_on(
                                        command.val.spawn_options.env_builder, ambient)])
    /\ UNCHANGED <<phase, command, child, needs_at_new, at_spawn, via, spawn_log,
                   wait_log, map_log, take_log, outcome, config_log, ambient, os, shared>>

ReturnNothing == TestOutputMapping(FALSE, FALSE)

InitEnv ==
    /\ phase = "Configuring"
    /\ \E p \in Programs, d \in DefaultSpawners :
          /\ command = Some(Command_new(p, ReturnNothing, d))
          /\ needs_at_new = [stdout |-> needs_captured_stdout(ReturnNothing),
                             stderr |-> needs_captured_stderr(ReturnNothing)]
          /\ config_log = NoCalls(TRUE, p)
    /\ child = None
    /\ at_spawn = None
    /\ via = "none"
    /\ spawn_log = <<>>
    /\ wait_log = <<>>
    /\ map_log = <<>>
    /\ take_log = <<>>
    /\ outcome = <<>>
    /\ ambient \in Ambients
    /\ created_map = None
    /\ os = None
    /\ shared = None

NextEnv ==
    \/ with_env_updates
    \/ with_env_update
    \/ with_inherit_env
    \/ build_on

SpecEnv == InitEnv /\ [][NextEnv]_vars

\* the update the calls staged for a key: that of the last call naming it
LastUpdate(calls, key) ==
    LET at == {i \in 1..Len(calls) : calls[i].key = key}
    IN  IF at = {}
        THEN None
        ELSE Some(calls[CHOOSE i \in at : \A j \in at : j <= i].update)

\* inheritance first, then every update in the order of the calls
RECURSIVE InheritThenUpdates(_, _, _)
InheritThenUpdates(map, amb, calls) ==
    IF calls = <<>>
    THEN map
    ELSE InheritThenUpdates(ApplyUpdate(map, amb, Head(calls).key, Head(calls).update),
                            amb, Tail(calls))

\* C14: the staged updates are what inserting every (key, update) pair in call
\* order gives, a later write to a key replacing the earlier one, whether the
\* pair came by with_env_update or with_env_updates; the resolved environment
\* is inheritance first and then those updates.
C14_StagedUpdatesInCallOrder ==
    /\ (phase = "Configuring" /\ config_log.on)
          => LET staged == command.val.spawn_options.env_builder.env_updates
             IN  \A k \in EnvKeys :
                    /\ k \in DOMAIN staged <=> LastUpdate(config_log.env, k).some
                    /\ k \in DOMAIN staged => staged[k] = LastUpdate(config_log.env, k).val
    /\ created_map.some
          => created_map.val.map =
                InheritThenUpdates(IF created_map.val.inherit
                                   THEN created_map.val.ambient ELSE <<>>,
                                   created_map.val.ambient, created_map.val.env_calls)

\* C14 witness: FOOBAR was set by a single call and then overwritten by a bulk
\* call, and the environment was resolved with the later value
C14_Witness ==
    /\ created_map.some
    /\ Len(created_map.val.env_calls) = 3
    /\ created_map.val.env_calls[1] = [key |-> "FOOBAR", update |-> Set("a")]
    /\ created_map.val.env_calls[2] = [key |-> "DODO", update |-> Unset]
    /\ created_map.val.env_calls[3] = [key |-> "FOOBAR", update |-> Set("b")]
    /\ "DODO" \in DOMAIN created_map.val.ambient
    /\ created_map.val.inherit
    /\ created_map.val.map = [k \in {"FOOBAR"} |-> "b"]

\* C15: with no explicit updates the resolved environment is the ambient
\* environment if the inherit flag is true and empty if it is false.
C15_NoUpdatesAmbientOrEmpty ==
    (created_map.some /\ created_map.val.env_calls = <<>>)
    => IF created_map.val.inherit
       THEN created_map.val.map = created_map.val.ambient
       ELSE DOMAIN created_map.val.map = {}

\* C15 witness: inheritance was disabled in a process with a non-empty
\* environment and the resolved environment is empty
C15_Witness ==
    /\ created_map.some
    /\ created_map.val.env_calls = <<>>
    /\ ~created_map.val.inherit
    /\ DOMAIN created_map.val.ambient = EnvKeys
    /\ DOMAIN created_map.val.map = {}

\* C16: in the resolved environment a key staged as Set(v) maps to v, a key
\* staged as Unset is absent, a key staged as Inherit has the ambient value
\* (absent if the ambient environment has none) whatever the inherit flag, and
\* a key with no staged update is present iff inheriting and present in the
\* ambient environment, with the ambient value.
C16_ResolutionRule ==
    created_map.some
    => LET r == created_map.val
       IN  \A k \in EnvKeys :
              LET u == LastUpdate(r.env_calls, k)
                  fromAmbient == /\ k \in DOMAIN r.map <=> k \in DOMAIN r.ambient
                                 /\ k \in DOMAIN r.map => r.map[k] = r.ambient[k]
              IN  CASE ~u.some              -> IF r.inherit
                                               THEN fromAmbient
                                               ELSE k \notin DOMAIN r.map
                    [] u.val.op = "Set"     -> k \in DOMAIN r.map /\ r.map[k] = u.val.value
                    [] u.val.op = "Unset"   -> k \notin DOMAIN r.map
                    [] u.val.op = "Inherit" -> fromAmbient

\* C16 witness: without inheritance FOOBAR is staged as Inherit and DODO is
\* not staged; FOOBAR has its ambient value and DODO is absent
C16_Witness ==
    /\ created_map.some
    /\ ~created_map.val.inherit
    /\ LastUpdate(created_map.val.env_calls, "FOOBAR") = Some(Inherit)
    /\ ~LastUpdate(created_map.val.env_calls, "DODO").some
    /\ DOMAIN created_map.val.ambient = EnvKeys
    /\ DOMAIN created_map.val.map = {"FOOBAR"}
    /\ created_map.val.map["FOOBAR"] = created_map.val.ambient["FOOBAR"]

\* ------------------------------------------------------- pipes of a Child
\* the custom pipe setup the backend was given for a stream
CustomSetup(call, stream) ==
    CASE stream = "stdout" -> call.options.custom_stdout_setup
      [] stream = "stderr" -> call.options.custom_stderr_setup
      [] stream = "stdin"  -> call.options.custom_stdin_setup

\* whether the backend was told to capture a stream (stdin never is)
Reserved(call, stream) ==
    CASE stream = "stdout" -> call.capture_stdout
      [] stream = "stderr" -> call.capture_stderr
      [] stream = "stdin"  -> FALSE

\* C17: take_stdout / take_stderr / take_stdin on a live Child return a pipe
\* end only for a stream with a custom piped setup that is not reserved for
\* capture; for a stream that was not piped, or that is captured, they return
\* nothing.
C17_TakeOnlyCustomPipes ==
    \A i \in 1..Len(take_log) :
        LET t == take_log[i]
        IN  /\ Len(spawn_log) = 1
            /\ (CustomSetup(spawn_log[1], t.stream) # Some("Piped")
                    \/ Reserved(spawn_log[1], t.stream))
                  => t.got = None
            /\ t.got.some => /\ CustomSetup(spawn_log[1], t.stream) = Some("Piped")
                             /\ ~Reserved(spawn_log[1], t.stream)

\* C17 witness: stdout has a custom pipe and is not captured, stderr has a
\* custom pipe but is captured: take_stdout got the pipe end, take_stderr
\* got nothing
C17_Witness ==
    /\ Len(take_log) = 2
    /\ take_log[1] = [stream |-> "stdout", got |-> Some("pipe")]
    /\ take_log[2] = [stream |-> "stderr", got |-> None]
    /\ spawn_log[1].options.custom_stdout_setup = Some("Piped")
    /\ spawn_log[1].options.custom_stderr_setup = Some("Piped")
    /\ ~spawn_log[1].capture_stdout
    /\ spawn_log[1].capture_stderr

\* what C18 says of one stream, given the need the mapping declares for it
CaptureWins(stream, needed) ==
    (Len(spawn_log) >= 1 /\ needed /\ CustomSetup(spawn_log[1], stream).some)
    => /\ Reserved(spawn_log[1], stream)
       /\ child.some => child.val.child[stream] = None
       /\ \A i \in 1..Len(take_log) :
              take_log[i].stream = stream => take_log[i].got = None
       /\ (at_spawn.val.spawn_impl.capture = "honor" /\ Len(wait_log) >= 1
               /\ wait_log[1].tag = "Ok")
             => wait_log[1].val[stream].some

\* C18: a custom stdout (stderr) setup on a stream the output mapping needs
\* captured is ignored: the backend is told to capture the stream, the
\* ExecResult of a backend that follows the flags holds it, and the Child has
\* no pipe end for it.
C18_CaptureNeedBeatsCustomSetup ==
    /\ CaptureWins("stdout", needs_at_new.stdout)
    /\ CaptureWins("stderr", needs_at_new.stderr)

\* C18 witness: stdout was given a custom pipe and is needed by the mapping:
\* take_stdout on the live Child got nothing and wait delivered the captured
\* stdout
C18_Witness ==
    /\ Len(spawn_log) = 1
    /\ spawn_log[1].options.custom_stdout_setup = Some("Piped")
    /\ needs_at_new.stdout
    /\ spawn_log[1].capture_stdout
    /\ Len(take_log) >= 1
    /\ take_log[1] = [stream |-> "stdout", got |-> None]
    /\ at_spawn.val.spawn_impl.capture = "honor"
    /\ Len(wait_log) = 1
    /\ wait_log[1].tag = "Ok"
    /\ wait_log[1].val.stdout = Some(OutBytes)

\* ------------------------------------------- the process behind a Child
PipeCap == 1        \* bytes an OS pipe holds before a write to it blocks
MaxScript == 4      \* reads and writes the spawned program does before it exits
MaxSend == 2        \* bytes the caller writes to the stdin pipe

\* what the spawned program does, step by step: write a byte to stdout or to
\* stderr, or read a byte from stdin
ProcessOps == {"out", "err", "in"}
ProcessScripts == UNION {[1..n -> ProcessOps] : n \in 0..MaxScript}

\* the process table entry and the pipes before the program was started
NotStarted(script) ==
    [script |-> script, pc |-> 1,
     pipe |-> [stdout |-> 0, stderr |-> 0, stdin |-> 0],
     caller |-> "idle", sent |-> 0, stdin_closed |-> FALSE,
     waiting |-> FALSE, draining |-> {}]

Exited == os.pc > Len(os.script)

StdinPiped == spawn_log[1].options.custom_stdin_setup = Some("Piped")

\* the caller took the stdin pipe end out of the Child
CallerHasStdin ==
    \E i \in 1..Len(take_log) : take_log[i] = [stream |-> "stdin", got |-> Some("pipe")]

\* the streams the backend pipes and keeps for itself
CaptureStreams == {st \in {"stdout", "stderr"} : Reserved(spawn_log[1], st)}

StreamOf(op) == IF op = "out" THEN "stdout" ELSE "stderr"

\* the program is about to write to a capture pipe that is full
BlockedOnCapture(st) ==
    /\ phase = "Spawned"
    /\ ~Exited
    /\ os.script[os.pc] \in {"out", "err"}
    /\ StreamOf(os.script[os.pc]) = st
    /\ st \in CaptureStreams
    /\ os.pipe[st] = PipeCap

\* one step of the spawned program; it runs from spawn on, whatever the
\* caller does
process_step ==
    /\ phase = "Spawned"
    /\ ~Exited
    /\ LET op == os.script[os.pc]
       IN  IF op = "in"
           THEN IF StdinPiped /\ os.pipe.stdin > 0
                THEN os' = [os EXCEPT !.pc = @ + 1, !.pipe.stdin = @ - 1]
                ELSE /\ ~StdinPiped \/ os.stdin_closed      \* end of input
                     /\ os' = [os EXCEPT !.pc = @ + 1]
           ELSE IF StreamOf(op) \in CaptureStreams
                THEN /\ os.pipe[StreamOf(op)] < PipeCap
                     /\ os' = [os EXCEPT !.pc = @ + 1, !.pipe[StreamOf(op)] = @ + 1]
                ELSE os' = [os EXCEPT !.pc = @ + 1]
    /\ UNCHANGED <<phase, command, child, needs_at_new, at_spawn, via, spawn_log,
                   wait_log, map_log, take_log, outcome, config_log,
                   ambient, created_map, shared>>

\* the caller starts a blocking write of one byte to the stdin pipe it took
write_stdin_begin ==
    /\ phase = "Spawned"
    /\ CallerHasStdin
    /\ os.caller = "idle"
    /\ ~os.waiting
    /\ ~os.stdin_closed
    /\ os.sent < MaxSend
    /\ os' = [os EXCEPT !.caller = "writing"]
    /\ UNCHANGED <<phase, command, child, needs_at_new, at_spawn, via, spawn_log,
                   wait_log, map_log, take_log, outcome, config_log,
                   ambient, created_map, shared>>

\* the write returns once the pipe has room for the byte
write_stdin_end ==
    /\ phase = "Spawned"
    /\ os.caller = "writing"
    /\ os.pipe.stdin < PipeCap
    /\ os' = [os EXCEPT !.caller = "idle", !.sent = @ + 1, !.pipe.stdin = @ + 1]
    /\ UNCHANGED <<phase, command, child, needs_at_new, at_spawn, via, spawn_log,
                   wait_log, map_log, take_log, outcome, config_log,
                   ambient, created_map, shared>>

\* the caller drops the stdin pipe end it took
close_stdin ==
    /\ phase = "Spawned"
    /\ CallerHasStdin
    /\ os.caller = "idle"
    /\ ~os.waiting
    /\ ~os.stdin_closed
    /\ os' = [os EXCEPT !.stdin_closed = TRUE]
    /\ UNCHANGED <<phase, command, child, needs_at_new, at_spawn, via, spawn_log,
                   wait_log, map_log, take_log, outcome, config_log,
                   ambient, created_map, shared>>

\* wait_with_output variant: only stdout is read while the program runs
wait_begin_stdout_only ==
    /\ phase = "Spawned"
    /\ os.caller = "idle"
    /\ ~os.waiting
    /\ os' = [os EXCEPT !.waiting = TRUE,
                        !.draining = CaptureStreams \cap {"stdout"},
                        !.stdin_closed = @ \/ child.val.child.stdin.some]
    /\ UNCHANGED <<phase, command, child, needs_at_new, at_spawn, via, spawn_log,
                   wait_log, map_log, take_log, outcome, config_log,
                   ambient, created_map, shared>>

\* Child::wait enters wait_with_output: a stdin pipe end still in the Child is
\* dropped, and every capture pipe is read from now on
wait_begin ==
    /\ phase = "Spawned"
    /\ os.caller = "idle"
    /\ ~os.waiting
    /\ os' = [os EXCEPT !.waiting = TRUE,
                        !.draining = CaptureStreams,
                        !.stdin_closed = @ \/ child.val.child.stdin.some]
    /\ UNCHANGED <<phase, command, child, needs_at_new, at_spawn, via, spawn_log,
                   wait_log, map_log, take_log, outcome, config_log,
                   ambient, created_map, shared>>

\* wait_with_output reads a byte from a capture pipe
drain ==
    \E st \in {"stdout", "stderr"} :
        /\ phase = "Spawned"
        /\ os.waiting
        /\ st \in os.draining
        /\ os.pipe[st] > 0
        /\ os' = [os EXCEPT !.pipe[st] = @ - 1]
        /\ UNCHANGED <<phase, command, child, needs_at_new, at_spawn, via, spawn_log,
                       wait_log, map_log, take_log, outcome, config_log,
                       ambient, created_map, shared>>

\* wait_with_output returns: the program exited and the capture pipes are
\* read to their end; Child::wait goes on with the status check and mapping
wait_end ==
    /\ os.waiting
    /\ Exited
    /\ \A st \in CaptureStreams : os.pipe[st] = 0
    /\ wait

InitDrain ==
    /\ phase = "Configuring"
    /\ \E p \in Programs, co \in BOOLEAN, ce \in BOOLEAN, d \in DefaultSpawners :
          /\ command = Some(Command_new(p, TestOutputMapping(co, ce), d))
          /\ needs_at_new = [stdout |-> co, stderr |-> ce]
          /\ config_log = NoCalls(FALSE, p)
    /\ child = None
    /\ at_spawn = None
    /\ via = "none"
    /\ spawn_log = <<>>
    /\ wait_log = <<>>
    /\ map_log = <<>>
    /\ take_log = <<>>
    /\ outcome = <<>>
    /\ ambient = <<>>
    /\ created_map = None
    /\ os \in {NotStarted(script) : script \in ProcessScripts}
    /\ shared = None

NextDrain ==
    \/ with_custom_stdin_setup
    \/ spawn
    \/ take_stdin
    \/ process_step
    \/ write_stdin_begin
    \/ write_stdin_end
    \/ close_stdin
    \/ wait_begin
    \/ drain
    \/ wait_end

\* the spawned program and the reads inside wait_with_output keep running
\* when they can; the caller is free to never call anything
SpecDrain ==
    /\ InitDrain
    /\ [][NextDrain]_vars
    /\ WF_vars(process_step)
    /\ WF_vars(drain)
    /\ WF_vars(wait_end)

\* the program waits for input on a stdin pipe the caller keeps open
StdinHeldOpen == StdinPiped /\ ~os.stdin_closed

Writes(op) == Cardinality({i \in 1..Len(os.script) : os.script[i] = op})

SharedBackends ==
    {[impl |-> si, once |-> o, called |-> FALSE] : si \in MockSpawners, o \in BOOLEAN}
    \cup {[impl |-> si, once |-> FALSE, called |-> FALSE] : si \in SysSpawners}

Commands == {1, 2}

\* a Command as Command::new left it, the shared backend not yet installed
NewCommand(m, d) ==
    [phase |-> "Configuring", command |-> Some(Command_new("foo", m, d)),
     installed |-> FALSE, at_spawn |-> None, child |-> None, outcome |-> None]

\* what a second call of an FnOnce behind a shared reference can give: the
\* callback is gone, so the spawn fails or the thread panics
SecondUse == {Err(IoError("mock result already taken")), [tag |-> "Panic"]}

\* the outcome of spawn followed by wait for a Command that has the backend
\* to itself
AloneOutcome(cmd, backend) ==
    LET s == Command_spawn([cmd EXCEPT !.spawn_impl = backend.impl])
    IN  IF s.ret.tag = "Err" THEN Err(s.ret.err) ELSE Child_wait(s.ret.val).ret

\* Command::with_spawn_impl variant: the Command keeps the backend it had
share_spawn_impl_keeps_previous(i) ==
    /\ shared.cmd[i].phase = "Configuring"
    /\ ~shared.cmd[i].installed
    /\ shared' = [shared EXCEPT !.cmd[i].installed = TRUE]
    /\ UNCHANGED <<phase, command, child, needs_at_new, at_spawn, via, spawn_log,
                   wait_log, map_log, take_log, outcome, config_log,
                   ambient, created_map, os>>

\* cmd.with_spawn_impl(backend.clone())
share_spawn_impl(i) ==
    /\ shared.cmd[i].phase = "Configuring"
    /\ ~shared.cmd[i].installed
    /\ shared' = [shared EXCEPT
                    !.cmd[i].command = Some([@.val EXCEPT !.spawn_impl = shared.backend.impl]),
                    !.cmd[i].installed = TRUE]
    /\ UNCHANGED <<phase, command, child, needs_at_new, at_spawn, via, spawn_log,
                   wait_log, map_log, take_log, outcome, config_log,
                   ambient, created_map, os>>

\* Command::spawn of command i: spawn_impl.spawn(..) through the shared
\* reference; an FnOnce callback is moved out by its first call
spawn_on(i) ==
    /\ shared.cmd[i].phase = "Configuring"
    /\ LET c == shared.cmd[i]
           b == shared.backend
       IN  IF c.installed /\ b.once /\ b.called
           THEN \E failure \in SecondUse :
                    shared' = [shared EXCEPT
                                 !.cmd[i].phase = "Completed",
                                 !.cmd[i].command = None,
                                 !.cmd[i].at_spawn = c.command,
                                 !.cmd[i].outcome = Some(failure),
                                 !.order = Append(@, [cmd |-> i, op |-> "spawn"])]
           ELSE LET s == Command_spawn(c.command.val)
                IN  shared' = [shared EXCEPT
                                 !.backend.called = @ \/ (c.installed /\ b.once),
                                 !.cmd[i].phase = IF s.ret.tag = "Err"
                                                  THEN "Completed" ELSE "Spawned",
                                 !.cmd[i].command = None,
                                 !.cmd[i].at_spawn = c.command,
                                 !.cmd[i].child = IF s.ret.tag = "Err"
                                                  THEN None ELSE Some(s.ret.val),
                                 !.cmd[i].outcome = IF s.ret.tag = "Err"
                                                    THEN Some(Err(s.ret.err)) ELSE None,
                                 !.order = Append(@, [cmd |-> i, op |-> "spawn"])]
    /\ UNCHANGED <<phase, command, child, needs_at_new, at_spawn, via, spawn_log,
                   wait_log, map_log, take_log, outcome, config_log,
                   ambient, created_map, os>>

\* Child::wait of command i
wait_on(i) ==
    /\ shared.cmd[i].phase = "Spawned"
    /\ shared' = [shared EXCEPT
                    !.cmd[i].phase = "Completed",
                    !.cmd[i].child = None,
                    !.cmd[i].outcome = Some(Child_wait(shared.cmd[i].child.val).ret),
                    !.order = Append(@, [cmd |-> i, op |-> "wait"])]
    /\ UNCHANGED <<phase, command, child, needs_at_new, at_spawn, via, spawn_log,
                   wait_log, map_log, take_log, outcome, config_log,
                   ambient, created_map, os>>

InitShared ==
    /\ phase = "Configuring"
    /\ \E d \in DefaultSpawners :
          /\ command = Some(Command_new("foo", ReturnNothing, d))
          /\ \E b \in SharedBackends, m1 \in OutputMappings, m2 \in OutputMappings :
                shared = [backend |-> b,
                          cmd |-> [i \in Commands |->
                                      NewCommand(IF i = 1 THEN m1 ELSE m2, d)],
                          order |-> <<>>]
    /\ needs_at_new = [stdout |-> FALSE, stderr |-> FALSE]
    /\ config_log = NoCalls(FALSE, "foo")
    /\ child = None
    /\ at_spawn = None
    /\ via = "none"
    /\ spawn_log = <<>>
    /\ wait_log = <<>>
    /\ map_log = <<>>
    /\ take_log = <<>>
    /\ outcome = <<>>
    /\ ambient = <<>>
    /\ created_map = None
    /\ os = None

NextShared ==
    \E i \in Commands :
        \/ share_spawn_impl(i)
        \/ spawn_on(i)
        \/ wait_on(i)

SpecShared == InitShared /\ [][NextShared]_vars

\* the two properties C20 gives a backend that several commands share
UnmutatedAndAsAlone ==
    /\ ~shared.backend.called
    /\ \A i \in Commands :
          (shared.cmd[i].installed /\ shared.cmd[i].outcome.some)
             => shared.cmd[i].outcome.val = AloneOutcome(shared.cmd[i].at_spawn.val, shared.backend)

MaxExtCalls == 3    \* checked operations and conversions recorded

\* the variables of the Command / Child pipeline, which ext.rs does not touch
pipeline == <<phase, command, child, needs_at_new, at_spawn, via, spawn_log,
              wait_log, map_log, take_log, outcome, config_log>>

\* std::process::ExitStatus: an exit code, or none when a signal ended the
\* process; success() is "the code is 0"
StdExitStatuses == {[code |-> Some(c)] : c \in 0..(MaxCode + 1)} \cup {[code |-> None]}
success(ex) == ex.code = Some(0)

\* collected bytes of stdout / stderr
Bytes == {<<>>, <<1, 2, 3>>}

\* std::process::Output
StdOutput(ex, out, err) == [status |-> ex, stdout |-> out, stderr |-> err]

\* From<StdOutput> for Output variant: the two streams change places
Output_from_swapped(out) == [stdout |-> out.stderr, stderr |-> out.stdout]

\* From<StdOutput> for Output (the crate's own Output, without a status)
Output_from(out) == [stdout |-> out.stdout, stderr |-> out.stderr]

\* the enums def_error! defines
StatusError_Io(e) == [error |-> "StatusError", variant |-> "Io", io |-> e]
StatusError_Failure(ex) == [error |-> "StatusError", variant |-> "Failure", ex |-> ex]
StatusErrorWithOutput_Io(e) ==
    [error |-> "StatusErrorWithOutput", variant |-> "Io", io |-> e]
StatusErrorWithOutput_Failure(ex, output) ==
    [error |-> "StatusErrorWithOutput", variant |-> "Failure", ex |-> ex, output |-> output]
Error_Io(e) == [error |-> "Error", variant |-> "Io", io |-> e]
Error_Failure(ex, output) ==
    [error |-> "Error", variant |-> "Failure", ex |-> ex, output |-> output]

\* From<StatusError> for Error variant: a failure is reported as an I/O error
Error_from_StatusError_as_io(err) ==
    IF err.variant = "Io"
    THEN Error_Io(err.io)
    ELSE Error_Io(IoError("command failed"))

Error_from_StatusError(err) ==
    IF err.variant = "Io"
    THEN Error_Io(err.io)
    ELSE Error_Failure(err.ex, None)

Error_from_StatusErrorWithOutput(err) ==
    IF err.variant = "Io"
    THEN Error_Io(err.io)
    ELSE Error_Failure(err.ex, Some(err.output))

\* the value of the unit type
Unit == "()"

\* a panic of the calling thread (Option::unwrap on None)
Panic == [error |-> "panic"]

\* the implementations of the trait OutputOrExitStatus, by implementing type
Types == {"Option<ExitStatus>", "ExitStatus", "StdOutput"}

\* use_ok_result variant: Option<ExitStatus> needs a status to be ok
use_ok_result_needs_status(T, think) ==
    CASE T = "Option<ExitStatus>" -> think.some /\ success(think.val)
      [] T = "ExitStatus"         -> success(think)
      [] T = "StdOutput"          -> success(think.status)

use_ok_result(T, think) ==
    CASE T = "Option<ExitStatus>" -> ~think.some \/ success(think.val)
      [] T = "ExitStatus"         -> success(think)
      [] T = "StdOutput"          -> success(think.status)

create_error(T, think) ==
    CASE T = "Option<ExitStatus>" -> IF think.some
                                     THEN StatusError_Failure(think.val)
                                     ELSE Panic
      [] T = "ExitStatus"         -> StatusError_Failure(think)
      [] T = "StdOutput"          -> StatusErrorWithOutput_Failure(think.status,
                                                                   Output_from(think))

convert(T, think) ==
    CASE T = "Option<ExitStatus>" -> think.some
      [] T = "ExitStatus"         -> Unit
      [] T = "StdOutput"          -> Output_from(think)

\* T::Error: From<IoError>
Error_from_IoError(T, io_error) ==
    IF T = "StdOutput" THEN StatusErrorWithOutput_Io(io_error) ELSE StatusError_Io(io_error)

\* convert_result variant: the status is not looked at
convert_result_unchecked(T, result) ==
    IF result.tag = "Ok"
    THEN Ok(convert(T, result.val))
    ELSE Err(Error_from_IoError(T, result.err))

convert_result(T, result) ==
    IF result.tag = "Ok"
    THEN IF use_ok_result(T, result.val)
         THEN Ok(convert(T, result.val))
         ELSE LET e == create_error(T, result.val)
              IN  IF e = Panic THEN [tag |-> "Panic"] ELSE Err(e)
    ELSE Err(Error_from_IoError(T, result.err))

\* what std::process answers: an I/O error, or the value the process gives
IoResult(fails, value) == IF fails THEN Err(IoError("bla")) ELSE Ok(value)

\* a checked operation was called: what std::process returned and what the
\* caller got
ExtCall(op, T, result, stage, exited) ==
    /\ Len(os.calls) < MaxExtCalls
    /\ os' = [os EXCEPT !.calls = Append(@, [op |-> op, result |-> result,
                                             ret |-> convert_result(T, result)]),
                        !.stage = stage,
                        !.exited = exited]
    /\ UNCHANGED <<pipeline, ambient, created_map, shared>>

\* CommandExt::checked_status
checked_status ==
    /\ os.stage = "Command"
    /\ \E fails \in BOOLEAN :
          ExtCall("checked_status", "ExitStatus", IoResult(fails, os.status),
                  "Command", os.exited)

\* CommandExt::checked_output
checked_output ==
    /\ os.stage = "Command"
    /\ \E fails \in BOOLEAN :
          ExtCall("checked_output", "StdOutput",
                  IoResult(fails, StdOutput(os.status, os.stdout, os.stderr)),
                  "Command", os.exited)

\* std::process::Command::spawn: the process runs from here on
std_spawn ==
    /\ os.stage = "Command"
    /\ os' = [os EXCEPT !.stage = "Child"]
    /\ UNCHANGED <<pipeline, ambient, created_map, shared>>

\* the spawned process exits
process_exits ==
    /\ os.stage = "Child"
    /\ ~os.exited
    /\ os' = [os EXCEPT !.exited = TRUE]
    /\ UNCHANGED <<pipeline, ambient, created_map, shared>>

\* ChildExt::checked_wait: blocks until the process has exited
checked_wait ==
    /\ os.stage = "Child"
    /\ \E fails \in BOOLEAN :
          ExtCall("checked_wait", "ExitStatus", IoResult(fails, os.status),
                  "Child", os.exited \/ ~fails)

\* ChildExt::checked_wait_with_output: consumes the Child
checked_wait_with_output ==
    /\ os.stage = "Child"
    /\ \E fails \in BOOLEAN :
          ExtCall("checked_wait_with_output", "StdOutput",
                  IoResult(fails, StdOutput(os.status, os.stdout, os.stderr)),
                  "Gone", os.exited \/ ~fails)

\* ChildExt::checked_try_wait: does not block
checked_try_wait ==
    /\ os.stage = "Child"
    /\ \E fails \in BOOLEAN :
          ExtCall("checked_try_wait", "Option<ExitStatus>",
                  IoResult(fails, IF os.exited THEN Some(os.status) ELSE None),
                  "Child", os.exited)

\* let err: Error = e.into() for an error a checked operation returned
error_from ==
    /\ Len(os.errors) < MaxExtCalls
    /\ \E i \in 1..Len(os.calls) :
          /\ os.calls[i].ret.tag = "Err"
          /\ LET e == os.calls[i].ret.err
             IN  os' = [os EXCEPT !.errors =
                          Append(@, [from |-> e,
                                     into |-> IF e.error = "StatusError"
                                              THEN Error_from_StatusError(e)
                                              ELSE Error_from_StatusErrorWithOutput(e)])]
    /\ UNCHANGED <<pipeline, ambient, created_map, shared>>

InitExt ==
    /\ phase = "Configuring"
    /\ \E d \in DefaultSpawners : command = Some(Command_new("foo", ReturnNothing, d))
    /\ needs_at_new = [stdout |-> FALSE, stderr |-> FALSE]
    /\ config_log = NoCalls(FALSE, "foo")
    /\ child = None
    /\ at_spawn = None
    /\ via = "none"
    /\ spawn_log = <<>>
    /\ wait_log = <<>>
    /\ map_log = <<>>
    /\ take_log = <<>>
    /\ outcome = <<>>
    /\ ambient = <<>>
    /\ created_map = None
    /\ \E ex \in StdExitStatuses, out \in Bytes, err \in Bytes :
          os = [status |-> ex, stdout |-> out, stderr |-> err,
                stage |-> "Command", exited |-> FALSE,
                calls |-> <<>>, errors |-> <<>>]
    /\ shared = None

NextExt ==
    \/ checked_status
    \/ checked_output
    \/ std_spawn
    \/ process_exits
    \/ checked_wait
    \/ checked_wait_with_output
    \/ checked_try_wait
    \/ error_from

SpecExt == InitExt /\ [][NextExt]_vars

\* the calls of the given checked operations
CallsOf(ops) == {i \in 1..Len(os.calls) : os.calls[i].op \in ops}

\* C21: checked_status and checked_wait return Ok(()) iff the underlying
\* operation returned a successful exit status, StatusError::Failure with that
\* very status if it returned another status, StatusError::Io with the error
\* if it failed, and nothing else.
C21_CheckedStatusOutcomes ==
    \A i \in CallsOf({"checked_status", "checked_wait"}) :
        LET c == os.calls[i]
        IN  /\ c.ret.tag \in {"Ok", "Err"}
            /\ c.ret.tag = "Ok" <=> (c.result.tag = "Ok" /\ c.result.val.code = Some(0))
            /\ c.ret.tag = "Ok" => c.ret.val = Unit
            /\ (c.result.tag = "Ok" /\ c.result.val.code # Some(0))
                  => /\ c.ret.err.error = "StatusError"
                     /\ c.ret.err.variant = "Failure"
                     /\ c.ret.err.ex = os.status
            /\ c.result.tag = "Err"
                  => /\ c.ret.err.error = "StatusError"
                     /\ c.ret.err.variant = "Io"
                     /\ c.ret.err.io = c.result.err

\* C21 witness: checked_status failed with the process's exit code 2
C21_Witness ==
    /\ os.status = [code |-> Some(2)]
    /\ Len(os.calls) >= 1
    /\ os.calls[1].op = "checked_status"
    /\ os.calls[1].ret = Err(StatusError_Failure([code |-> Some(2)]))

\* C22: checked_output and checked_wait_with_output return Ok(Output) with
\* the collected stdout and stderr iff the exit status is successful,
\* StatusErrorWithOutput::Failure with the status and the same stdout and
\* stderr on another status, and StatusErrorWithOutput::Io on an I/O error.
C22_CheckedOutputOutcomes ==
    \A i \in CallsOf({"checked_output", "checked_wait_with_output"}) :
        LET c == os.calls[i]
        IN  /\ c.ret.tag \in {"Ok", "Err"}
            /\ c.ret.tag = "Ok" <=> (c.result.tag = "Ok" /\ c.result.val.status.code = Some(0))
            /\ c.ret.tag = "Ok" => /\ c.ret.val.stdout = os.stdout
                                   /\ c.ret.val.stderr = os.stderr
            /\ (c.result.tag = "Ok" /\ c.result.val.status.code # Some(0))
                  => /\ c.ret.err.error = "StatusErrorWithOutput"
                     /\ c.ret.err.variant = "Failure"
                     /\ c.ret.err.ex = os.status
                     /\ c.ret.err.output.stdout = os.stdout
                     /\ c.ret.err.output.stderr = os.stderr
            /\ c.result.tag = "Err"
                  => /\ c.ret.err.error = "StatusErrorWithOutput"
                     /\ c.ret.err.variant = "Io"
                     /\ c.ret.err.io = c.result.err

\* C22 witness: checked_wait_with_output of a process ended by a signal
\* carries the status and the collected stdout, stderr being empty
C22_Witness ==
    /\ os.status = [code |-> None]
    /\ os.stdout = <<1, 2, 3>>
    /\ os.stderr = <<>>
    /\ Len(os.calls) >= 1
    /\ os.calls[1].op = "checked_wait_with_output"
    /\ os.calls[1].ret.tag = "Err"
    /\ os.calls[1].ret.err.variant = "Failure"
    /\ os.calls[1].ret.err.output = [stdout |-> <<1, 2, 3>>, stderr |-> <<>>]

\* C23: checked_try_wait returns Ok(false) while the process has not exited,
\* Ok(true) once it exited successfully, StatusError::Failure(status) once it
\* exited otherwise, StatusError::Io on an I/O error; it never panics.
C23_CheckedTryWaitOutcomes ==
    \A i \in CallsOf({"checked_try_wait"}) :
        LET c == os.calls[i]
        IN  /\ c.ret.tag \in {"Ok", "Err"}
            /\ (c.result.tag = "Ok" /\ ~c.result.val.some) => c.ret = Ok(FALSE)
            /\ (c.result.tag = "Ok" /\ c.result.val.some /\ c.result.val.val.code = Some(0))
                  => c.ret = Ok(TRUE)
            /\ (c.result.tag = "Ok" /\ c.result.val.some /\ c.result.val.val.code # Some(0))
                  => /\ c.ret.tag = "Err"
                     /\ c.ret.err.variant = "Failure"
                     /\ c.ret.err.ex = os.status
            /\ c.result.tag = "Err"
                  => /\ c.ret.tag = "Err"
                     /\ c.ret.err.variant = "Io"
                     /\ c.ret.err.io = c.result.err

\* C23 witness: the first checked_try_wait found the process running, the
\* second found it exited with code 1
C23_Witness ==
    /\ Len(os.calls) >= 2
    /\ os.calls[1].op = "checked_try_wait"
    /\ os.calls[1].ret = Ok(FALSE)
    /\ os.calls[2].op = "checked_try_wait"
    /\ os.calls[2].ret = Err(StatusError_Failure([code |-> Some(1)]))

\* C24: the conversions into Error keep variant and payload: Io(e) gives
\* Error::Io(e), StatusError::Failure(s) gives Error::Failure(s, None),
\* StatusErrorWithOutput::Failure(s, out) gives Error::Failure(s, Some(out)).
C24_ErrorFromKeepsPayload ==
    \A i \in 1..Len(os.errors) :
        LET e == os.errors[i].from
            r == os.errors[i].into
        IN  /\ r.error = "Error"
            /\ r.variant = e.variant
            /\ e.variant = "Io" => r.io = e.io
            /\ e.variant = "Failure"
                  => /\ r.ex = e.ex
                     /\ e.error = "StatusError" => r.output = None
                     /\ e.error = "StatusErrorWithOutput"
                           => /\ r.output.some
                              /\ r.output.val.stdout = e.output.stdout
                              /\ r.output.val.stderr = e.output.stderr

\* C24 witness: a failure of checked_status and one of checked_output were
\* both converted
C24_Witness ==
    /\ Len(os.errors) = 2
    /\ os.errors[1].from = StatusError_Failure([code |-> Some(2)])
    /\ os.errors[1].into = Error_Failure([code |-> Some(2)], None)
    /\ os.errors[2].from.error = "StatusErrorWithOutput"
    /\ os.errors[2].into =
          Error_Failure([code |-> Some(2)],
                        Some([stdout |-> <<1, 2, 3>>, stderr |-> <<>>]))

\* ------------------------------------------------- spawn and wait, again
\* C25: the backend's spawn has happened when Command::spawn has returned a
\* Child, and nothing has been waited for at that point; the backend's
\* wait-to-completion happens only in Child::wait (or inside run), after the
\* backend's spawn succeeded.
C25_SpawnStartsWaitOnlyAwaits ==
    [][/\ phase' = "Spawned"
             => /\ Len(spawn_log') = 1
                /\ spawn_log'[1].ret.tag = "Ok"
                /\ wait_log' = <<>>
       /\ (spawn_log' # spawn_log /\ via' = "spawn") => wait_log' = wait_log
       /\ wait_log' # wait_log
             => /\ Len(spawn_log') = 1
                /\ spawn_log'[1].ret.tag = "Ok"
                /\ via' = "spawn" => (phase = "Spawned" /\ spawn_log' = spawn_log)
      ]_vars

\* C25 witness: Command::spawn returned a Child of a mock backend: the
\* backend's spawn was called, its wait was not
C25_Witness ==
    /\ phase = "Spawned"
    /\ via = "spawn"
    /\ child.some
    /\ Len(spawn_log) = 1
    /\ spawn_log[1].ret.tag = "Ok"
    /\ at_spawn.val.spawn_impl.kind = "mock"
    /\ at_spawn.val.spawn_impl.behaviour = "completes"
    /\ wait_log = <<>>

\* C26: if wait-to-completion fails, Child::wait returns that I/O failure
\* converted into the command's error type; the exit status is not checked
\* and map_output is not called, with checking enabled or disabled.
C26_WaitFailurePropagates ==
    (Len(wait_log) >= 1 /\ wait_log[1].tag = "Err")
    => /\ map_log = <<>>
       /\ Len(outcome) = 1
       /\ outcome[1] = Err(Error_from_io(wait_log[1].err))
       /\ outcome[1].err.error # "UnexpectedExitStatus"

\* C26 witness: checking was disabled and the wait failed: the caller got
\* the I/O failure
C26_Witness ==
    /\ phase = "Completed"
    /\ via = "spawn"
    /\ ~at_spawn.val.expected_exit_status.some
    /\ wait_log = <<Err(IoError("failed wait"))>>
    /\ map_log = <<>>
    /\ outcome = <<Err(Error_from_io(IoError("failed wait")))>>

\* the ExecResult has a stream the mapping did not need, or lacks one it needs
ContradictsNeeds(result, mapping) ==
    \/ result.stdout.some # needs_captured_stdout(mapping)
    \/ result.stderr.some # needs_captured_stderr(mapping)

\* C27: a result whose captured streams contradict the declared needs is not
\* refused by the pipeline: if its status passes the check it is given to
\* map_output as it is and the caller gets what the mapping returns, an
\* ordinary Ok or Err; otherwise the caller gets the status error.
C27_ContradictingCaptureReachesMapping ==
    (Len(wait_log) = 1 /\ wait_log[1].tag = "Ok"
        /\ ContradictsNeeds(wait_log[1].val, at_spawn.val.output_mapping))
    => /\ Len(outcome) = 1
       /\ outcome[1].tag \in {"Ok", "Err"}
       /\ IF at_spawn.val.expected_exit_status.some
             /\ at_spawn.val.expected_exit_status.val # wait_log[1].val.exit_status
          THEN /\ map_log = <<>>
               /\ outcome[1].err.error = "UnexpectedExitStatus"
          ELSE /\ Len(map_log) = 1
               /\ map_log[1].arg = wait_log[1].val
               /\ outcome[1] = map_log[1].ret

\* C27 witness: a mock returned stdout though nothing was to be captured,
\* with exit code 1 and checking disabled; map_output got the result
C27_Witness ==
    /\ phase = "Completed"
    /\ via = "run"
    /\ ~at_spawn.val.expected_exit_status.some
    /\ at_spawn.val.spawn_impl.kind = "mock"
    /\ at_spawn.val.output_mapping = TestOutputMapping(FALSE, FALSE)
    /\ Len(wait_log) = 1 /\ wait_log[1].tag = "Ok"
    /\ wait_log[1].val.exit_status = Code(1)
    /\ wait_log[1].val.stdout = Some(OutBytes)
    /\ Len(map_log) = 1 /\ map_log[1].arg = wait_log[1].val
    /\ outcome = <<map_log[1].ret>>

\* ------------------------------------ the environment changes before spawn
\* the environment the calling process starts with
AmbientsAtStart ==
    {[k \in EnvKeys |-> "a"], [k \in {"FOOBAR"} |-> "a"]}

\* std::env::set_var in the calling process, once, while the Command is being
\* configured; the environment before the change and the number of
\* environment calls made so far are kept
set_var ==
    /\ phase = "Configuring"
    /\ os = None
    /\ \E k \in EnvKeys, v \in EnvValues :
          /\ MapInsert(ambient, k, v) # ambient
          /\ ambient' = MapInsert(ambient, k, v)
    /\ os' = Some([old |-> ambient, calls |-> Len(config_log.env)])
    /\ UNCHANGED <<pipeline, created_map, shared>>

\* std::env::remove_var in the calling process
remove_var ==
    /\ phase = "Configuring"
    /\ os = None
    /\ \E k \in DOMAIN ambient : ambient' = MapRemove(ambient, k)
    /\ os' = Some([old |-> ambient, calls |-> Len(config_log.env)])
    /\ UNCHANGED <<pipeline, created_map, shared>>

\* Command::spawn with the OS backend, which resolves the environment of the
\* new process from the EnvBuilder and the environment of the caller
spawn_resolving ==
    /\ phase = "Configuring"
    /\ LET s == Command_spawn(command.val)
       IN  /\ spawn_log' = Append(spawn_log, s.call)
           /\ IF s.ret.tag = "Err"
              THEN /\ phase' = "Completed"
                   /\ child' = None
                   /\ outcome' = Append(outcome, Err(s.ret.err))
              ELSE /\ phase' = "Spawned"
                   /\ child' = Some(s.ret.val)
                   /\ outcome' = outcome
           /\ created_map' = Some([env_calls |-> config_log.env,
                                   inherit |-> config_log.inherit,
                                   ambient |-> ambient,
                                   map |-> EnvBuilder_build_on(
                                               s.call.options.env_builder, ambient)])
    /\ at_spawn' = command
    /\ command' = None
    /\ via' = "spawn"
    /\ UNCHANGED <<needs_at_new, config_log, wait_log, map_log, take_log,
                   ambient, os, shared>>

InitEnvAtSpawn ==
    /\ phase = "Configuring"
    /\ \E p \in Programs, d \in DefaultSpawners :
          /\ command = Some(Command_new(p, ReturnNothing, d))
          /\ needs_at_new = [stdout |-> needs_captured_stdout(ReturnNothing),
                             stderr |-> needs_captured_stderr(ReturnNothing)]
          /\ config_log = NoCalls(TRUE, p)
    /\ child = None
    /\ at_spawn = None
    /\ via = "none"
    /\ spawn_log = <<>>
    /\ wait_log = <<>>
    /\ map_log = <<>>
    /\ take_log = <<>>
    /\ outcome = <<>>
    /\ ambient \in AmbientsAtStart
    /\ created_map = None
    /\ os = None
    /\ shared = None

NextEnvAtSpawn ==
    \/ with_env_update
    \/ with_inherit_env
    \/ set_var
    \/ remove_var
    \/ spawn_resolving

SpecEnvAtSpawn == InitEnvAtSpawn /\ [][NextEnvAtSpawn]_vars

\* C28: the environment of the calling process is read when the environment
\* of the child is resolved, at spawn: a key staged as Inherit, and every
\* unlisted key when inheriting, has in the resolved environment the value
\* the caller's environment has at spawn, whatever it was when
\* with_env_update(key, Inherit) or with_inherit_env was called.
C28_AmbientReadAtSpawn ==
    (created_map.some /\ Len(spawn_log) = 1)
    => LET r == created_map.val
       IN  /\ r.ambient = ambient
           /\ r.map = InheritThenUpdates(IF r.inherit THEN ambient ELSE <<>>,
                                         ambient, r.env_calls)
           /\ \A k \in EnvKeys :
                 LET u == LastUpdate(r.env_calls, k)
                 IN  ((u.some /\ u.val.op = "Inherit") \/ (~u.some /\ r.inherit))
                        => /\ k \in DOMAIN r.map <=> k \in DOMAIN ambient
                           /\ k \in DOMAIN r.map => r.map[k] = ambient[k]

\* C28 witness: FOOBAR was staged as Inherit, with inheritance off, when its
\* value was "a"; it was then set to "b", and the child got "b"
C28_Witness ==
    /\ created_map.some
    /\ Len(spawn_log) = 1
    /\ os.some
    /\ os.val.calls >= 1
    /\ os.val.old["FOOBAR"] = "a"
    /\ "FOOBAR" \in DOMAIN ambient
    /\ ambient["FOOBAR"] = "b"
    /\ ~created_map.val.inherit
    /\ created_map.val.env_calls[1] = [key |-> "FOOBAR", update |-> Inherit]
    /\ LastUpdate(created_map.val.env_calls, "FOOBAR") = Some(Inherit)
    /\ created_map.val.map = [k \in {"FOOBAR"} |-> "b"]

\* ------------------------------------------- what a configuration call changes
MaxSettings == 2

\* a Command that takes a limited number of settings from all configuration
\* methods
InitFrame ==
    /\ phase = "Configuring"
    /\ \E p \in Programs, d \in DefaultSpawners :
          /\ command = Some(Command_new(p, ReturnNothing, d))
          /\ needs_at_new = [stdout |-> needs_captured_stdout(ReturnNothing),
                             stderr |-> needs_captured_stderr(ReturnNothing)]
          /\ config_log = [NoCalls(TRUE, p) EXCEPT !.budget = Some(MaxSettings)]
    /\ child = None
    /\ at_spawn = None
    /\ via = "none"
    /\ spawn_log = <<>>
    /\ wait_log = <<>>
    /\ map_log = <<>>
    /\ take_log = <<>>
    /\ outcome = <<>>
    /\ ambient \in AmbientsAtStart
    /\ created_map = None
    /\ os = None
    /\ shared = None

\* the argument, environment, working-directory and pipe-setup methods
OptionsMethods ==
    \/ with_argument
    \/ with_arguments
    \/ with_env_update
    \/ with_env_updates
    \/ with_inherit_env
    \/ with_working_directory_override
    \/ with_custom_stdout_setup
    \/ without_custom_stdout_setup
    \/ with_custom_stderr_setup
    \/ without_custom_stderr_setup
    \/ with_custom_stdin_setup
    \/ without_custom_stdin_setup

\* with/without_expected_exit_status
StatusMethods ==
    \/ with_expected_exit_status
    \/ without_expected_exit_status

\* with_spawn_impl, and with_mock_result which calls it
BackendMethods == with_spawn_impl

NextFrame ==
    \/ OptionsMethods
    \/ StatusMethods
    \/ BackendMethods

SpecFrame == InitFrame /\ [][NextFrame]_vars

\* the parts of SpawnOptions other than the program
OptionsButProgram(cmd) ==
    [k \in DOMAIN cmd.spawn_options \ {"program"} |-> cmd.spawn_options[k]]

\* C29: a configuration method changes only the part of the Command it
\* names: the argument, environment, working-directory and pipe-setup
\* methods leave the expected exit status, the output mapping and the spawn
\* backend as they were; with/without_expected_exit_status, and
\* with_spawn_impl, leave program, arguments, environment, working directory
\* and pipe setups as they were; no method changes the program.
C29_ConfigurationFrame ==
    [][LET c == command.val
           d == command'.val
       IN  /\ d.spawn_options.program = c.spawn_options.program
           /\ IF OptionsMethods
              THEN /\ d.expected_exit_status = c.expected_exit_status
                   /\ d.output_mapping = c.output_mapping
                   /\ d.spawn_impl = c.spawn_impl
              ELSE TRUE
           /\ IF StatusMethods
              THEN /\ d.spawn_options = c.spawn_options
                   /\ d.output_mapping = c.output_mapping
                   /\ d.spawn_impl = c.spawn_impl
              ELSE TRUE
           /\ IF BackendMethods
              THEN /\ d.spawn_options = c.spawn_options
                   /\ d.output_mapping = c.output_mapping
                   /\ d.expected_exit_status = c.expected_exit_status
              ELSE TRUE
      ]_vars

\* C29 witness: a Command whose expected exit status check was switched off
\* and which then got a working-directory override
C29_Witness ==
    /\ phase = "Configuring"
    /\ config_log.budget = Some(0)
    /\ command.val.expected_exit_status = None
    /\ command.val.spawn_options.working_directory_override = Some("/tmp")
    /\ OptionsButProgram(command.val)
          = [OptionsButProgram(Command_new("foo", ReturnNothing,
                                           command.val.spawn_impl))
                EXCEPT !.working_directory_override = Some("/tmp")]

\* ------------------------------------------------ what the pipeline hands over
\* C30: the backend's spawn receives the spawn options of the Command
\* exactly as they were configured; the exit status wait compares with is
\* the one the Command held when it was spawned; and map_output is given
\* exactly the ExecResult wait-to-completion returned.
C30_HandedOverUnaltered ==
    /\ (at_spawn.some /\ spawn_log # <<>>)
          => /\ spawn_log[1].options = at_spawn.val.spawn_options
             /\ spawn_log[1].capture_stdout = will_capture_stdout(at_spawn.val)
             /\ spawn_log[1].capture_stderr = will_capture_stderr(at_spawn.val)
    /\ (at_spawn.some /\ child.some)
          => child.val.expected_exit_status = at_spawn.val.expected_exit_status
    /\ (at_spawn.some /\ wait_log # <<>> /\ wait_log[1].tag = "Ok")
          => LET res == wait_log[1].val
                 exp == at_spawn.val.expected_exit_status
             IN  IF exp.some /\ exp.val # res.exit_status
                 THEN /\ map_log = <<>>
                      /\ outcome = <<Err(Error_from_unexpected(
                                        UnexpectedExitStatus(res.exit_status, exp.val)))>>
                 ELSE /\ Len(map_log) = 1
                      /\ map_log[1].arg = res
                      /\ map_log[1].arg.exit_status = res.exit_status
                      /\ map_log[1].arg.stdout = res.stdout
                      /\ map_log[1].arg.stderr = res.stderr
                      /\ outcome = <<map_log[1].ret>>

\* C30 witness: a Command with a custom stdin pipe that expects exit status
\* 1 ran on a backend exiting with 1; the mapping got both captured streams
C30_Witness ==
    /\ phase = "Completed"
    /\ at_spawn.some
    /\ at_spawn.val.expected_exit_status = Some(Code(1))
    /\ at_spawn.val.spawn_options.custom_stdin_setup = Some("Piped")
    /\ spawn_log # <<>>
    /\ spawn_log[1].options.custom_stdin_setup = Some("Piped")
    /\ wait_log = <<Ok(ExecResult(Code(1), Some(OutBytes), Some(ErrBytes)))>>
    /\ Len(map_log) = 1
    /\ map_log[1].arg = ExecResult(Code(1), Some(OutBytes), Some(ErrBytes))
    /\ Len(outcome) = 1
    /\ outcome[1].tag = "Ok"

====
